---- MODULE Spec2Model ----
(***************************************************************************)
(* Model of the scoring / ranking engine of Resonance:                     *)
(*   lib/services/embedding/similarity  (cosineSimilarity, findMostSimilar, *)
(*   batchCosineSimilarity, averageSimilarity, normalizeToPercent), whose   *)
(*   text is in src/lib/services/x-api.service.ts.                          *)
(*                                                                         *)
(* A JavaScript `number` is an IEEE-754 binary64 value.  The results of    *)
(* Math.sqrt, `*` and `/` are the correctly rounded (round-to-nearest,     *)
(* ties-to-even) values, and the model computes them that way, with a      *)
(* 53-bit significand held as an arbitrary-precision natural (TLC's own    *)
(* integers are 32 bits wide).  Vector components are small integers, so   *)
(* the sums of products in the loops of cosineSimilarity are exact.        *)
(***************************************************************************)
EXTENDS Integers, Sequences, FiniteSets, TLC

----------------------------------------------------------------------------
(* Arbitrary-precision naturals: little-endian sequences of limbs in       *)
(* 0..LimbBase-1 with no leading (most significant) zero limb; <<>> is 0.  *)
(* Carries are found by look-ahead rather than by a loop over the limbs,   *)
(* which keeps the evaluation of an operation shallow.                     *)

LimbBits == 15
LimbBase == 32768

\* the number of most significant limbs of a that are 0
BLeadingZeros(a) ==
  CHOOSE drop \in 0..Len(a) :
    /\ drop = Len(a) \/ a[Len(a) - drop] # 0
    /\ \A idx \in (Len(a) - drop + 1)..Len(a) : a[idx] = 0

BTrim(a) == SubSeq(a, 1, Len(a) - BLeadingZeros(a))

RECURSIVE BFromInt(_)
BFromInt(n) ==
  IF n = 0 THEN <<>> ELSE <<n % LimbBase>> \o BFromInt(n \div LimbBase)

BLimb(a, i) == IF i <= Len(a) THEN a[i] ELSE 0

\* the larger of the lengths of a and b
BMaxLen(a, b) == IF Len(a) >= Len(b) THEN Len(a) ELSE Len(b)

\* a limb below i, j, overflows and every limb between j and i passes the
\* carry on
BCarryFrom(a, b, i) ==
  \E j \in 1..(i - 1) :
    /\ BLimb(a, j) + BLimb(b, j) >= LimbBase
    /\ \A k \in (j + 1)..(i - 1) : BLimb(a, k) + BLimb(b, k) = LimbBase - 1

\* the carry into limb i of a + b
BCarry(a, b, i) ==
  IF i = 1 THEN 0
  ELSE IF BLimb(a, i - 1) + BLimb(b, i - 1) >= LimbBase THEN 1
  ELSE IF BLimb(a, i - 1) + BLimb(b, i - 1) < LimbBase - 1 THEN 0
  ELSE IF BCarryFrom(a, b, i - 1) THEN 1 ELSE 0

\* the limbs 1..len of a + b
BAddLimbs(a, b, len) ==
  [i \in 1..len |-> (BLimb(a, i) + BLimb(b, i) + BCarry(a, b, i)) % LimbBase]

BAdd(a, b) ==
  IF a = <<>> THEN b
  ELSE IF b = <<>> THEN a
  ELSE BTrim(BAddLimbs(a, b, BMaxLen(a, b) + 1) \o <<>>)

\* a limb below i, j, is short and every limb between j and i passes the
\* borrow on
BBorrowFrom(a, b, i) ==
  \E j \in 1..(i - 1) :
    /\ a[j] < BLimb(b, j)
    /\ \A k \in (j + 1)..(i - 1) : a[k] = BLimb(b, k)

\* the borrow from limb i of a - b
BBorrow(a, b, i) ==
  IF i = 1 THEN 0
  ELSE IF a[i - 1] < BLimb(b, i - 1) THEN 1
  ELSE IF a[i - 1] > BLimb(b, i - 1) THEN 0
  ELSE IF BBorrowFrom(a, b, i - 1) THEN 1 ELSE 0

\* the limbs of a - b
BSubLimbs(a, b) ==
  [i \in 1..Len(a) |->
     (a[i] - BLimb(b, i) - BBorrow(a, b, i) + LimbBase) % LimbBase]

\* a - b for a >= b
BSub(a, b) ==
  IF b = <<>> THEN a
  ELSE IF a = b THEN <<>>
  ELSE BTrim(BSubLimbs(a, b) \o <<>>)

\* the number of most significant limbs in which a and b, of one length,
\* agree
BAgreeing(a, b) ==
  CHOOSE same \in 0..Len(a) :
    /\ same = Len(a) \/ a[Len(a) - same] # b[Len(a) - same]
    /\ \A idx \in (Len(a) - same + 1)..Len(a) : a[idx] = b[idx]

\* a and b differ in limb i and agree above it
BCmpAt(a, b, i) ==
  IF i = 0 THEN 0 ELSE IF a[i] < b[i] THEN -1 ELSE 1

\* -1, 0, 1 as a < b, a = b, a > b
BCmp(a, b) ==
  IF Len(a) < Len(b) THEN -1
  ELSE IF Len(a) > Len(b) THEN 1
  ELSE BCmpAt(a, b, Len(a) - BAgreeing(a, b))

BOdd(a) == a # <<>> /\ a[1] % 2 = 1

\* a shifted up by k limbs
BShlLimbs(a, k) == IF a = <<>> THEN a ELSE [i \in 1..k |-> 0] \o a

\* a * m for an integer 0 <= m < LimbBase: the low halves of the limb
\* products plus their high halves one limb up
BMulSmall(a, m) ==
  IF m = 0 \/ a = <<>> THEN <<>>
  ELSE BAdd([i \in 1..Len(a) |-> (a[i] * m) % LimbBase] \o <<>>,
            <<0>> \o [i \in 1..Len(a) |-> (a[i] * m) \div LimbBase])

BDouble(a) == BMulSmall(a, 2)

\* <<a div m, a mod m>> for an integer 0 < m < LimbBase, limbs i..1 of a,
\* rem the remainder carried down from the limbs above
RECURSIVE BDivSmallC(_, _, _, _)
BDivSmallC(a, m, i, rem) ==
  IF i = 0 THEN <<(<<>>), rem>>
  ELSE LET cur  == rem * LimbBase + a[i]
           rest == BDivSmallC(a, m, i - 1, cur % m)
       IN  <<Append(rest[1], cur \div m), rest[2]>>

BTrimQuotient(qr) == <<BTrim(qr[1]), qr[2]>>

BDivSmall(a, m) == BTrimQuotient(BDivSmallC(a, m, Len(a), 0))

\* number of significant bits of 0 <= n < LimbBase
IntBitLen(n) ==
  CHOOSE bits \in 0..LimbBits : n < 2 ^ bits /\ (bits = 0 \/ n >= 2 ^ (bits - 1))

\* number of significant bits of a
BBitLen(a) ==
  IF a = <<>> THEN 0 ELSE (Len(a) - 1) * LimbBits + IntBitLen(a[Len(a)])

\* a * 2^k
BShl(a, k) == BShlLimbs(BMulSmall(a, 2 ^ (k % LimbBits)), k \div LimbBits)

\* a div 2^k for 0 <= k < LimbBits: each limb gets the low k bits of the
\* limb above it
BShrBits(a, k) ==
  BTrim([i \in 1..Len(a) |->
           a[i] \div 2 ^ k + (BLimb(a, i + 1) % 2 ^ k) * 2 ^ (LimbBits - k)]
        \o <<>>)

\* a div 2^k
BShr(a, k) ==
  IF k \div LimbBits >= Len(a) THEN <<>>
  ELSE BShrBits(SubSeq(a, k \div LimbBits + 1, Len(a)), k % LimbBits)

BHalf(a) == BShr(a, 1)

\* a times the limbs lo..hi of b, at their place
RECURSIVE BMulRange(_, _, _, _)
BMulRange(a, b, lo, hi) ==
  IF lo = hi THEN BShlLimbs(BMulSmall(a, b[lo]), lo - 1)
  ELSE BAdd(BMulRange(a, b, lo, (lo + hi) \div 2),
            BMulRange(a, b, (lo + hi) \div 2 + 1, hi))

BMul(a, b) ==
  IF a = <<>> \/ b = <<>> THEN <<>> ELSE BMulRange(a, b, 1, Len(b))

\* the quotient digit cur div b estimated from the two limbs of cur above
\* the top limb of b, for cur < b * LimbBase and b with its top bit set in
\* its top limb: the digit, or 1 or 2 more
BQuotGuess(cur, b) ==
  (BLimb(cur, Len(b) + 1) * LimbBase + BLimb(cur, Len(b))) \div b[Len(b)]

BQuotEstimate(cur, b) ==
  IF BQuotGuess(cur, b) >= LimbBase THEN LimbBase - 1 ELSE BQuotGuess(cur, b)

\* long division of a by b > 0 with its top bit set in its top limb: quot
\* is the quotient limbs found so far out of digits, rem < b the remainder
\* of the limbs of a above them; <<quotient limbs, remainder>>
RECURSIVE BDivRemC(_, _, _, _, _)

\* cur is rem with the next limb of a brought down, q its quotient limb or
\* more, prod is q * b
RECURSIVE BDivRemDigit(_, _, _, _, _, _, _)
BDivRemDigit(a, b, digits, cur, quot, q, prod) ==
  IF BCmp(prod, cur) <= 0
  THEN BDivRemC(a, b, digits, BSub(cur, prod), <<q>> \o quot)
  ELSE BDivRemDigit(a, b, digits, cur, quot, q - 1, BMulSmall(b, q - 1))

BDivRemStep(a, b, digits, cur, quot) ==
  BDivRemDigit(a, b, digits, cur, quot, BQuotEstimate(cur, b),
               BMulSmall(b, BQuotEstimate(cur, b)))

BDivRemC(a, b, digits, rem, quot) ==
  IF Len(quot) >= digits THEN <<quot, rem>>
  ELSE BDivRemStep(a, b, digits, BTrim(<<a[digits - Len(quot)]>> \o rem),
                   quot)

\* the division of a by b, both shifted up by the same number of bits so
\* that b has its top bit set in its top limb
BDivRemShifted(a, b) ==
  IF Len(a) < Len(b) THEN <<(<<>>), a>>
  ELSE BDivRemC(a, b, Len(a) - Len(b) + 1,
                SubSeq(a, Len(a) - Len(b) + 2, Len(a)), <<>>)

\* the number of bits b is shifted up by
BDivShift(b) == LimbBits - IntBitLen(b[Len(b)])

BUnshifted(qr, shift) == <<BTrim(qr[1]), BShr(qr[2], shift)>>

\* <<a div b, a mod b>> for b > 0
BDivRem(a, b) ==
  BUnshifted(BDivRemShifted(BShl(a, BDivShift(b)), BShl(b, BDivShift(b))),
             BDivShift(b))

\* Newton's iteration x' = (x + a div x) div 2 from x >= sqrt(a), down to
\* floor(sqrt(a))
RECURSIVE BSqrtNewton(_, _)

\* q is a div x: the iterate after x is below x iff q is
BSqrtNext(a, x, q) ==
  IF BCmp(q, x) >= 0 THEN x ELSE BSqrtNewton(a, BHalf(BAdd(x, q)))

BSqrtNewton(a, x) == BSqrtNext(a, x, BDivRem(a, x)[1])

BWithRem(a, s) == <<s, BSub(a, BMul(s, s))>>

\* <<s, r>> with s = floor(sqrt(a)) and r = a - s*s
BSqrtRem(a) ==
  IF a = <<>> THEN <<(<<>>), (<<>>)>>
  ELSE BWithRem(a, BSqrtNewton(a, BShl(<<1>>, (BBitLen(a) + 1) \div 2)))

----------------------------------------------------------------------------
(* IEEE-754 binary64 values: [sgn, man, exp] stands for sgn * man * 2^exp   *)
(* with man a Precision-bit natural (its top bit set); zero is FZero.       *)
(* Only finite values in the normal range occur in the model.               *)

Precision == 53

FZero == [sgn |-> 0, man |-> <<>>, exp |-> 0]

\* a significand m of Precision or Precision + 1 bits as a binary64
FRoundPack(sgn, m, e) ==
  IF BBitLen(m) > Precision
  THEN [sgn |-> sgn, man |-> BHalf(m), exp |-> e + 1]
  ELSE [sgn |-> sgn, man |-> m, exp |-> e]

\* q or q + 1: c compares the bits cut off with one half, ties go to even
FRoundUp(q, c, inexact) ==
  IF c > 0 \/ (c = 0 /\ (inexact \/ BOdd(q))) THEN BAdd(q, <<1>>) ELSE q

\* bit pos of n, bit 0 the least significant
BBit(n, pos) ==
  (BLimb(n, pos \div LimbBits + 1) \div 2 ^ (pos % LimbBits)) % 2

\* some bit of n below bit pos is set
BBitBelow(n, pos) ==
  \/ BLimb(n, pos \div LimbBits + 1) % 2 ^ (pos % LimbBits) # 0
  \/ \E idx \in 1..(pos \div LimbBits) : BLimb(n, idx) # 0

\* -1, 0, 1 as the low k bits of n are below, equal to or above one half
\* of 2^k
BCmpHalf(n, k) ==
  IF BBit(n, k - 1) = 0 THEN -1 ELSE IF BBitBelow(n, k - 1) THEN 1 ELSE 0

\* n rounded to its top Precision bits q = n div 2^k
FRoundCut(sgn, n, q, k, inexact, e) ==
  FRoundPack(sgn, FRoundUp(q, BCmpHalf(n, k), inexact), e + k)

\* FRound of n # 0 of bl bits
FRoundBits(sgn, n, bl, inexact, e) ==
  IF bl <= Precision
  THEN [sgn |-> sgn, man |-> BShl(n, Precision - bl),
        exp |-> e - (Precision - bl)]
  ELSE FRoundCut(sgn, n, BShr(n, bl - Precision), bl - Precision, inexact, e)

\* the binary64 nearest to sgn * (n + f) * 2^e, ties to even, where the
\* fraction 0 <= f < 1 is non-zero iff inexact
FRound(sgn, n, inexact, e) ==
  IF n = <<>> THEN FZero ELSE FRoundBits(sgn, n, BBitLen(n), inexact, e)

\* FRound of an integer part qr[1] with remainder qr[2]
FRoundRem(sgn, qr, e) == FRound(sgn, qr[1], qr[2] # <<>>, e)

Abs(n) == IF n < 0 THEN -n ELSE n
Sign(n) == IF n < 0 THEN -1 ELSE IF n > 0 THEN 1 ELSE 0

\* an integer as a binary64 (exact below 2^53)
FFromInt(n) == FRound(Sign(n), BFromInt(Abs(n)), FALSE, 0)

\* x * y, correctly rounded
FMul(x, y) ==
  IF x.sgn = 0 \/ y.sgn = 0 THEN FZero
  ELSE FRound(x.sgn * y.sgn, BMul(x.man, y.man), FALSE, x.exp + y.exp)

\* x / y for y # 0, correctly rounded
FDiv(x, y) ==
  IF x.sgn = 0 \/ y.sgn = 0 THEN FZero
  ELSE FRoundRem(x.sgn * y.sgn, BDivRem(BShl(x.man, 4 * LimbBits), y.man),
                 x.exp - y.exp - 4 * LimbBits)

\* Math.sqrt(x) for x >= 0, correctly rounded
FSqrt(x) ==
  IF x.sgn = 0 THEN FZero
  ELSE LET odd == x.exp % 2 # 0
           m   == IF odd THEN BDouble(x.man) ELSE x.man
           e   == IF odd THEN x.exp - 1 ELSE x.exp
       IN  FRoundRem(1, BSqrtRem(BShl(m, 4 * LimbBits)),
                     (e - 4 * LimbBits) \div 2)

\* -1, 0, 1 as x < y, x = y, x > y
FCmp(x, y) ==
  IF x.sgn # y.sgn THEN (IF x.sgn < y.sgn THEN -1 ELSE 1)
  ELSE IF x.sgn = 0 THEN 0
  ELSE IF x.exp # y.exp THEN (IF x.exp < y.exp THEN -x.sgn ELSE x.sgn)
  ELSE x.sgn * BCmp(x.man, y.man)

FOne == FFromInt(1)
FMinusOne == FFromInt(-1)

----------------------------------------------------------------------------
(* Inputs.  A vector is a sequence of integer components; every length     *)
(* from 0 (the empty vector) to MaxDim occurs, so that empty and           *)
(* mismatched arguments are among the inputs.                               *)

MaxDim == 3
MaxComp == 1
MaxCands == 2
MaxLimit == 2

Components == -MaxComp..MaxComp
Vectors == UNION {[1..len -> Components] : len \in 0..MaxDim}

\* the largest sum of squares of a vector
MaxMagSq == MaxDim * MaxComp * MaxComp

\* the vector of MaxDim components that begins with `ones` components equal
\* to unit and is 0 after them
Staircase(ones, unit) ==
  [comp \in 1..MaxDim |-> IF comp <= ones THEN unit ELSE 0]

\* query vectors of the ranker: the empty vector and the staircases of 1 and
\* of -1
QueryVectors ==
  {<<>>} \cup {Staircase(ones, unit) : ones \in 1..MaxDim, unit \in {-1, 1}}

\* candidate vectors of the ranker: the empty vector, a vector one component
\* short, the zero vector, the staircases of 1 and the vector of -1
CandidateVectors ==
  {<<>>, [comp \in 1..(MaxDim - 1) |-> 1], Staircase(MaxDim, -1)}
  \cup {Staircase(ones, 1) : ones \in 0..MaxDim}

DefaultLimit == 10
DefaultThreshold == FZero

\* target lists: every list of up to MaxCands candidate vectors
TargetLists == UNION {[1..len -> CandidateVectors] : len \in 0..MaxCands}

\* candidate lists: the target lists, and one list of DefaultLimit + 1
\* vectors, long enough for the default limit to truncate
CandidateVectorLists ==
  TargetLists
  \cup {[idx \in 1..(DefaultLimit + 1) |-> [comp \in 1..MaxDim |-> 1]]}

\* candidate.id is the candidate's position in the input list
WithIds(vecs) == [idx \in 1..Len(vecs) |-> [id |-> idx, vector |-> vecs[idx]]]

\* an optional argument is <<>> when omitted and <<value>> when given
Limits == {<<>>} \cup {<<lim>> : lim \in -MaxLimit..MaxLimit}
Thresholds == {<<>>, <<FOne>>, <<FMinusOne>>}

----------------------------------------------------------------------------
(* Outcome of a call: a returned value or a thrown Error.                   *)

Return(val) == [threw |-> FALSE, value |-> val]
Throw(msg) == [threw |-> TRUE, error |-> [name |-> "Error", message |-> msg]]

----------------------------------------------------------------------------
(* cosineSimilarity *)

\* sum over i of vecA[i] * vecB[i], the loops of cosineSimilarity; the
\* components are integers, so every partial sum is exact in binary64
RECURSIVE SumProducts(_, _, _)
SumProducts(vecA, vecB, from) ==
  IF from > Len(vecA) THEN 0
  ELSE vecA[from] * vecB[from] + SumProducts(vecA, vecB, from + 1)

\* Math.sqrt of every sum of squares
MathSqrt == [sq \in 0..MaxMagSq |-> FSqrt(FFromInt(sq))] @@ <<>>

\* magnitudeA * magnitudeB, by the two sums of squares whose roots
\* magnitudeA and magnitudeB are
MagnitudeProduct ==
  [sqA \in 1..MaxMagSq, sqB \in 1..MaxMagSq |->
     FMul(MathSqrt[sqA], MathSqrt[sqB])] @@ <<>>

\* dotProduct / (magnitudeA * magnitudeB), by dotProduct and the two sums of
\* squares
Quotient ==
  [dot \in -MaxMagSq..MaxMagSq, sqA \in 1..MaxMagSq, sqB \in 1..MaxMagSq |->
     FDiv(FFromInt(dot), MagnitudeProduct[sqA, sqB])] @@ <<>>

\* not-a-number, the binary64 result of 0 / 0
FNaN == [sgn |-> 2, man |-> <<>>, exp |-> 0]

\* cosineSimilarity dividing by magnitudeA * magnitudeA
cosineSimilarityNormByA(vectorA, vectorB) ==
  IF Len(vectorA) # Len(vectorB)
  THEN Throw(<<"Vector dimensions must match: ", Len(vectorA), " vs ",
               Len(vectorB)>>)
  ELSE IF Len(vectorA) = 0
  THEN Throw(<<"Vectors cannot be empty">>)
  ELSE LET dotProduct == SumProducts(vectorA, vectorB, 1)
           sumSqA     == SumProducts(vectorA, vectorA, 1)
           sumSqB     == SumProducts(vectorB, vectorB, 1)
           magnitudeA == MathSqrt[sumSqA]
           magnitudeB == MathSqrt[sumSqB]
       IN  IF magnitudeA = FZero \/ magnitudeB = FZero
           THEN Return(FZero)
           ELSE Return(Quotient[dotProduct, sumSqA, sumSqA])

\* cosineSimilarity whose dot-product loop starts at the second component
cosineSimilarityDotSkipsFirst(vectorA, vectorB) ==
  IF Len(vectorA) # Len(vectorB)
  THEN Throw(<<"Vector dimensions must match: ", Len(vectorA), " vs ",
               Len(vectorB)>>)
  ELSE IF Len(vectorA) = 0
  THEN Throw(<<"Vectors cannot be empty">>)
  ELSE LET dotProduct == SumProducts(vectorA, vectorB, 2)
           sumSqA     == SumProducts(vectorA, vectorA, 1)
           sumSqB     == SumProducts(vectorB, vectorB, 1)
           magnitudeA == MathSqrt[sumSqA]
           magnitudeB == MathSqrt[sumSqB]
       IN  IF magnitudeA = FZero \/ magnitudeB = FZero
           THEN Return(FZero)
           ELSE Return(Quotient[dotProduct, sumSqA, sumSqB])

\* cosineSimilarity returning 0 only when both magnitudes are zero, so that
\* one zero vector gives 0 / 0
cosineSimilarityZeroCheckBoth(vectorA, vectorB) ==
  IF Len(vectorA) # Len(vectorB)
  THEN Throw(<<"Vector dimensions must match: ", Len(vectorA), " vs ",
               Len(vectorB)>>)
  ELSE IF Len(vectorA) = 0
  THEN Throw(<<"Vectors cannot be empty">>)
  ELSE LET dotProduct == SumProducts(vectorA, vectorB, 1)
           sumSqA     == SumProducts(vectorA, vectorA, 1)
           sumSqB     == SumProducts(vectorB, vectorB, 1)
           magnitudeA == MathSqrt[sumSqA]
           magnitudeB == MathSqrt[sumSqB]
       IN  IF magnitudeA = FZero /\ magnitudeB = FZero
           THEN Return(FZero)
           ELSE IF magnitudeA = FZero \/ magnitudeB = FZero
           THEN Return(FNaN)
           ELSE Return(Quotient[dotProduct, sumSqA, sumSqB])

\* cosineSimilarity without the check for empty vectors: the loops do not
\* run, both magnitudes are zero
cosineSimilarityNoEmptyCheck(vectorA, vectorB) ==
  IF Len(vectorA) # Len(vectorB)
  THEN Throw(<<"Vector dimensions must match: ", Len(vectorA), " vs ",
               Len(vectorB)>>)
  ELSE LET dotProduct == SumProducts(vectorA, vectorB, 1)
           sumSqA     == SumProducts(vectorA, vectorA, 1)
           sumSqB     == SumProducts(vectorB, vectorB, 1)
           magnitudeA == MathSqrt[sumSqA]
           magnitudeB == MathSqrt[sumSqB]
       IN  IF magnitudeA = FZero \/ magnitudeB = FZero
           THEN Return(FZero)
           ELSE Return(Quotient[dotProduct, sumSqA, sumSqB])

\* cosineSimilarity checking for an empty vector before comparing the lengths
cosineSimilarityEmptyCheckFirst(vectorA, vectorB) ==
  IF Len(vectorA) = 0 \/ Len(vectorB) = 0
  THEN Throw(<<"Vectors cannot be empty">>)
  ELSE IF Len(vectorA) # Len(vectorB)
  THEN Throw(<<"Vector dimensions must match: ", Len(vectorA), " vs ",
               Len(vectorB)>>)
  ELSE LET dotProduct == SumProducts(vectorA, vectorB, 1)
           sumSqA     == SumProducts(vectorA, vectorA, 1)
           sumSqB     == SumProducts(vectorB, vectorB, 1)
           magnitudeA == MathSqrt[sumSqA]
           magnitudeB == MathSqrt[sumSqB]
       IN  IF magnitudeA = FZero \/ magnitudeB = FZero
           THEN Return(FZero)
           ELSE Return(Quotient[dotProduct, sumSqA, sumSqB])

cosineSimilarity(vectorA, vectorB) ==
  IF Len(vectorA) # Len(vectorB)
  THEN Throw(<<"Vector dimensions must match: ", Len(vectorA), " vs ",
               Len(vectorB)>>)
  ELSE IF Len(vectorA) = 0
  THEN Throw(<<"Vectors cannot be empty">>)
  ELSE LET dotProduct == SumProducts(vectorA, vectorB, 1)
           sumSqA     == SumProducts(vectorA, vectorA, 1)
           sumSqB     == SumProducts(vectorB, vectorB, 1)
           magnitudeA == MathSqrt[sumSqA]
           magnitudeB == MathSqrt[sumSqB]
       IN  IF magnitudeA = FZero \/ magnitudeB = FZero
           THEN Return(FZero)
           ELSE Return(Quotient[dotProduct, sumSqA, sumSqB])

----------------------------------------------------------------------------
(* findMostSimilar *)

Min(lo, hi) == IF lo <= hi THEN lo ELSE hi
Max(lo, hi) == IF lo >= hi THEN lo ELSE hi

\* the comparator (a, b) => b.similarity - a.similarity: negative, zero or
\* positive as the difference of the two binary64 values is
compareFn(resA, resB) == FCmp(resB.similarity, resA.similarity)

\* ArraySort with an unstable sort: equal elements come out in reverse order
ArraySortUnstable(arr) ==
  LET Before(other, idx) ==
        \/ compareFn(arr[other], arr[idx]) < 0
        \/ compareFn(arr[other], arr[idx]) = 0 /\ other > idx
      Position(idx) == 1 + Cardinality({other \in 1..Len(arr) : Before(other, idx)})
  IN  [pos \in 1..Len(arr) |->
         arr[CHOOSE idx \in 1..Len(arr) : Position(idx) = pos]]

\* Array.prototype.sort with compareFn: a stable sort (ECMAScript 2019), so
\* the element at input index idx follows exactly the elements that compare
\* before it and the equal elements of smaller index
ArraySort(arr) ==
  LET Before(other, idx) ==
        \/ compareFn(arr[other], arr[idx]) < 0
        \/ compareFn(arr[other], arr[idx]) = 0 /\ other < idx
      Position(idx) == 1 + Cardinality({other \in 1..Len(arr) : Before(other, idx)})
  IN  [pos \in 1..Len(arr) |->
         arr[CHOOSE idx \in 1..Len(arr) : Position(idx) = pos]]

\* Array.prototype.slice(0, end): a negative end counts from the end of arr
ArraySlice(arr, end) ==
  LET final == IF end < 0 THEN Max(Len(arr) + end, 0) ELSE Min(end, Len(arr))
  IN  SubSeq(arr, 1, final)

\* findMostSimilar with the filter similarity > threshold
findMostSimilarExclusive(queryVector, candidates, limitArg, thresholdArg) ==
  LET limit     == IF limitArg = <<>> THEN DefaultLimit ELSE limitArg[1]
      threshold == IF thresholdArg = <<>> THEN DefaultThreshold
                   ELSE thresholdArg[1]
      calls     == [idx \in 1..Len(candidates) |->
                      cosineSimilarity(queryVector, candidates[idx].vector)]
      failed    == {idx \in 1..Len(candidates) : calls[idx].threw}
      mapped    == [idx \in 1..Len(candidates) |->
                      [sourceId   |-> candidates[idx].id,
                       similarity |-> calls[idx].value]]
      filtered  == SelectSeq(mapped,
                     LAMBDA res : FCmp(res.similarity, threshold) > 0)
  IN  IF failed # {}
      THEN calls[CHOOSE idx \in failed : \A other \in failed : idx <= other]
      ELSE Return(ArraySlice(ArraySort(filtered), limit))

\* findMostSimilar skipping the candidates whose vector is empty or not of
\* the length of the query vector
findMostSimilarSkipsMalformed(queryVector, candidates, limitArg, thresholdArg) ==
  findMostSimilarExclusive(
    queryVector,
    SelectSeq(candidates,
              LAMBDA cand : /\ Len(cand.vector) = Len(queryVector)
                            /\ Len(cand.vector) > 0),
    limitArg, thresholdArg)

\* findMostSimilar truncating before it sorts: .slice(0, limit).sort(...)
findMostSimilarSliceFirst(queryVector, candidates, limitArg, thresholdArg) ==
  LET limit     == IF limitArg = <<>> THEN DefaultLimit ELSE limitArg[1]
      threshold == IF thresholdArg = <<>> THEN DefaultThreshold
                   ELSE thresholdArg[1]
      calls     == [idx \in 1..Len(candidates) |->
                      cosineSimilarity(queryVector, candidates[idx].vector)]
      failed    == {idx \in 1..Len(candidates) : calls[idx].threw}
      mapped    == [idx \in 1..Len(candidates) |->
                      [sourceId   |-> candidates[idx].id,
                       similarity |-> calls[idx].value]]
      filtered  == SelectSeq(mapped,
                     LAMBDA res : FCmp(res.similarity, threshold) >= 0)
  IN  IF failed # {}
      THEN calls[CHOOSE idx \in failed : \A other \in failed : idx <= other]
      ELSE Return(ArraySort(ArraySlice(filtered, limit)))

\* limitArg and thresholdArg are optional: <<>> when omitted
findMostSimilar(queryVector, candidates, limitArg, thresholdArg) ==
  LET limit     == IF limitArg = <<>> THEN DefaultLimit ELSE limitArg[1]
      threshold == IF thresholdArg = <<>> THEN DefaultThreshold
                   ELSE thresholdArg[1]
      calls     == [idx \in 1..Len(candidates) |->
                      cosineSimilarity(queryVector, candidates[idx].vector)]
      failed    == {idx \in 1..Len(candidates) : calls[idx].threw}
      mapped    == [idx \in 1..Len(candidates) |->
                      [sourceId   |-> candidates[idx].id,
                       similarity |-> calls[idx].value]]
      filtered  == SelectSeq(mapped,
                     LAMBDA res : FCmp(res.similarity, threshold) >= 0)
  IN  IF failed # {}
      THEN calls[CHOOSE idx \in failed : \A other \in failed : idx <= other]
      ELSE Return(ArraySlice(ArraySort(filtered), limit))

\* candidates.sort(...) in place of candidates.map(...).filter(...).sort(...):
\* the caller's list is reordered by similarity when no candidate fails
findMostSimilarLeavesSorted(queryVector, candidates, limitArg, thresholdArg) ==
  LET calls  == [idx \in 1..Len(candidates) |->
                   cosineSimilarity(queryVector, candidates[idx].vector)]
      scored == [idx \in 1..Len(candidates) |->
                   [id |-> candidates[idx].id,
                    vector |-> candidates[idx].vector,
                    similarity |-> calls[idx].value]]
      sorted == ArraySort(scored)
  IN  [queryVector |-> queryVector,
       list |-> IF \E idx \in 1..Len(candidates) : calls[idx].threw
                THEN candidates
                ELSE [idx \in 1..Len(candidates) |->
                        [id |-> sorted[idx].id, vector |-> sorted[idx].vector]]]

\* the caller's arrays when findMostSimilar has returned or thrown: map and
\* filter each build a new array, sort orders the array that filter built,
\* slice copies from it, and cosineSimilarity only reads a[i] and b[i]; no
\* statement assigns to queryVector, candidates or a candidate's fields
findMostSimilarLeaves(queryVector, candidates, limitArg, thresholdArg) ==
  [queryVector |-> queryVector, list |-> candidates]

----------------------------------------------------------------------------
(* More binary64 operations: `+`, Math.min, Math.max, Math.pow(x, 0.8) and  *)
(* Math.round.                                                              *)

\* mx * 2^e and my * 2^e with signs sx and sy, added and rounded
FAddSigned(sx, mx, sy, my, e) ==
  IF sx = sy THEN FRound(sx, BAdd(mx, my), FALSE, e)
  ELSE IF BCmp(mx, my) >= 0 THEN FRound(sx, BSub(mx, my), FALSE, e)
  ELSE FRound(sy, BSub(my, mx), FALSE, e)

FAddAligned(x, y, e) ==
  FAddSigned(x.sgn, BShl(x.man, x.exp - e), y.sgn, BShl(y.man, y.exp - e), e)

\* x + y, correctly rounded
FAdd(x, y) ==
  IF x.sgn = 0 THEN y
  ELSE IF y.sgn = 0 THEN x
  ELSE FAddAligned(x, y, Min(x.exp, y.exp))

MathMin(x, y) == IF FCmp(x, y) <= 0 THEN x ELSE y
MathMax(x, y) == IF FCmp(x, y) >= 0 THEN x ELSE y

BSquare(a) == BMul(a, a)
BPow4(a) == BSquare(BSquare(a))

\* Newton's iteration y' = (4y + rad div y^4) div 5 from y >= rad^(1/5),
\* down to floor(rad^(1/5))
RECURSIVE BFifthRootNewton(_, _)

\* q is rad div y^4: the iterate after y is below y iff q is
BFifthRootNext(rad, y, q) ==
  IF BCmp(q, y) >= 0 THEN y
  ELSE BFifthRootNewton(rad, BDivSmall(BAdd(BMulSmall(y, 4), q), 5)[1])

BFifthRootNewton(rad, y) == BFifthRootNext(rad, y, BDivRem(rad, BPow4(y))[1])

BFifthRoot(rad) ==
  BFifthRootNewton(rad, BShl(<<1>>, (BBitLen(rad) + 4) \div 5))

\* root is floor(rad^(1/5)); the binary64 nearest to rad^(1/5) * 2^e
FRoundFifthRoot(root, rad, e) ==
  FRound(1, root, BMul(root, BPow4(root)) # rad, e)

\* the number of bits man^4 is shifted by before the root is taken, so that
\* the root has more than Precision bits and 4 * exp - shift is a multiple
\* of 5
RootShift(exp) == 4 * LimbBits + ((4 * exp) % 5)

\* Math.pow(x, 0.8) for x >= 0: the fifth root of x^4, correctly rounded
MathPow08(x) ==
  IF x.sgn = 0 THEN FZero
  ELSE FRoundFifthRoot(BFifthRoot(BShl(BPow4(x.man), RootShift(x.exp))),
                       BShl(BPow4(x.man), RootShift(x.exp)),
                       (4 * x.exp - RootShift(x.exp)) \div 5)

RECURSIVE BToInt(_)
BToInt(a) == IF a = <<>> THEN 0 ELSE a[1] + LimbBase * BToInt(Tail(a))

\* floor(2 * x) for x >= 0
FloorTwice(x) ==
  IF x.exp + 1 >= 0 THEN BShl(x.man, x.exp + 1)
  ELSE BShr(x.man, -(x.exp + 1))

\* Math.round(x) for x >= 0, floor(x + 1/2), as an integer
MathRound(x) == IF x.sgn = 0 THEN 0 ELSE (BToInt(FloorTwice(x)) + 1) \div 2

FHundred == FFromInt(100)

----------------------------------------------------------------------------
(* batchCosineSimilarity and averageSimilarity *)

\* the first outcome of calls that threw, as Array.prototype.map lets the
\* first exception of its callback escape
FirstThrown(calls) ==
  calls[CHOOSE idx \in DOMAIN calls :
          calls[idx].threw /\ \A other \in 1..(idx - 1) : ~calls[other].threw]

AnyThrown(calls) == \E idx \in DOMAIN calls : calls[idx].threw

\* the values of calls that all returned
Values(calls) == [idx \in DOMAIN calls |-> calls[idx].value]

MapCosine(queryVector, targetVectors) ==
  [idx \in 1..Len(targetVectors) |->
     cosineSimilarity(queryVector, targetVectors[idx])]

MapResult(calls) ==
  IF AnyThrown(calls) THEN FirstThrown(calls) ELSE Return(Values(calls))

batchCosineSimilarity(queryVector, targetVectors) ==
  MapResult(MapCosine(queryVector, targetVectors))

\* the caller's arrays when batchCosineSimilarity has returned or thrown:
\* map builds the result array and the callback only reads its arguments
batchCosineSimilarityLeaves(queryVector, targetVectors) ==
  [queryVector |-> queryVector, list |-> targetVectors]

\* similarities.reduce((acc, val) => acc + val, 0) over the first `upto`
\* elements
\* the lists given to averageSimilarity: the empty list and the lists that
\* batchCosineSimilarity returns
BatchCalls ==
  {batchCosineSimilarity(query, vecs) :
     query \in QueryVectors, vecs \in TargetLists}
SimilarityLists ==
  {<<>>, <<FOne, FZero>>}
  \cup {call.value : call \in {done \in BatchCalls : ~done.threw}}

RECURSIVE ReduceAdd(_, _)
ReduceAdd(similarities, upto) ==
  IF upto = 0 THEN FZero
  ELSE FAdd(ReduceAdd(similarities, upto - 1), similarities[upto])

\* averageSimilarity without the check for the empty list: 0 / 0
averageSimilarityNoEmptyCheck(similarities) ==
  IF Len(similarities) = 0 THEN Return(FNaN)
  ELSE Return(FDiv(ReduceAdd(similarities, Len(similarities)),
                   FFromInt(Len(similarities))))

averageSimilarity(similarities) ==
  IF Len(similarities) = 0 THEN Return(FZero)
  ELSE Return(FDiv(ReduceAdd(similarities, Len(similarities)),
                   FFromInt(Len(similarities))))

----------------------------------------------------------------------------
(* The topical-similarity scorer (services/scoring/topical-similarity).     *)
(* A score is an integer-valued number and is held as an integer.           *)

MaxDenom == 4
MaxScore == 100

\* similarities given to the scorer directly: fractions below 0, in [0, 1]
\* and above 1
Similarities ==
  {FDiv(FFromInt(num), FFromInt(den)) :
     num \in -MaxDenom..(2 * MaxDenom), den \in 1..MaxDenom}

\* 0.3839867079360148 (0x1.8933cfc2bc4cfp-2), a similarity whose curve
\* value 100 * s^0.8 is less than a rounding error below 46.5
NearTie == [sgn |-> 1, man |-> <<17615, 30807, 19699, 196>>, exp |-> -54]

\* similarities the scorer gets from cosineSimilarity
CosineCalls ==
  {cosineSimilarity(query, target) :
     query \in QueryVectors, target \in CandidateVectors}
CosineValues == {call.value : call \in {done \in CosineCalls : ~done.threw}}

\* Math.max(0, Math.min(1, similarity))
Clamp(similarity) == MathMax(FZero, MathMin(FOne, similarity))

\* Math.pow(clamped, 0.8) by similarity
Curved ==
  [similarity \in Similarities \cup CosineValues \cup {NearTie} |->
     MathPow08(Clamp(similarity))] @@ <<>>

\* ECMAScript leaves the accuracy of Math.pow to the engine, and the
\* literal 0.8 is the binary64 nearest to 4/5: the engine's result is the
\* correctly rounded fifth root of x^4 or a neighbour of it
PowOutcomes(pow) ==
  IF pow.sgn = 0 THEN {pow}
  ELSE {pow, FRound(1, BAdd(pow.man, <<1>>), FALSE, pow.exp),
        FRound(1, BSub(pow.man, <<1>>), FALSE, pow.exp)}

\* the similarities whose score does not depend on that last bit
ScorerInputs ==
  {similarity \in DOMAIN Curved :
     \A pow \in PowOutcomes(Curved[similarity]) :
       MathRound(FMul(pow, FHundred))
         = MathRound(FMul(Curved[similarity], FHundred))}

\* Math.round(curved * 100) by similarity
TopicalScore ==
  [similarity \in ScorerInputs |->
     MathRound(FMul(Curved[similarity], FHundred))] @@ <<>>

\* the score computed without the table
CurveDirect(similarity) ==
  MathRound(FMul(MathPow08(Clamp(similarity)), FHundred))

\* calculateTopicalSimilarity returning 100 - score
calculateTopicalSimilarityInverted(similarity) ==
  Return(MaxScore - TopicalScore[similarity])

\* calculateTopicalSimilarity with clamped = Math.max(0, similarity)
calculateTopicalSimilarityNoUpperClamp(similarity) ==
  Return(MathRound(FMul(MathPow08(MathMax(FZero, similarity)), FHundred)))

\* calculateTopicalSimilarity with the curve Math.pow(clamped, 0.5)
calculateTopicalSimilaritySquareRootCurve(similarity) ==
  Return(MathRound(FMul(FSqrt(Clamp(similarity)), FHundred)))

\* calculateTopicalSimilarity throwing for a similarity outside [0, 1]
calculateTopicalSimilarityRejecting(similarity) ==
  IF FCmp(similarity, FZero) < 0 \/ FCmp(similarity, FOne) > 0
  THEN Throw(<<"Similarity out of range">>)
  ELSE Return(TopicalScore[similarity])

calculateTopicalSimilarity(similarity) == Return(TopicalScore[similarity])

\* normalizeToPercent with Math.sqrt(clamped) in place of clamped
normalizeToPercentSquareRoot(similarity) ==
  Return(MathRound(FMul(FSqrt(Clamp(similarity)), FHundred)))

\* normalizeToPercent (x-api.service): Math.round(clamped * 100) with
\* clamped = Math.max(0, Math.min(1, similarity))
normalizeToPercent(similarity) ==
  Return(MathRound(FMul(Clamp(similarity), FHundred)))

\* the score of a similarity that cosineSimilarity returned, or its error
ScoreOf(call) ==
  IF call.threw THEN call ELSE calculateTopicalSimilarity(call.value)

calculateTopicalSimilarityFromEmbeddings(userInterestsEmbedding, postEmbedding) ==
  ScoreOf(cosineSimilarity(userInterestsEmbedding, postEmbedding))

\* interpretTopicalSimilarity with bands exclusive on the lower bound
interpretTopicalSimilarityExclusive(score) ==
  IF score > 85 THEN Return("Highly relevant")
  ELSE IF score > 70 THEN Return("Very relevant")
  ELSE IF score > 55 THEN Return("Moderately relevant")
  ELSE IF score > 40 THEN Return("Somewhat relevant")
  ELSE IF score > 25 THEN Return("Loosely relevant")
  ELSE Return("Not relevant")

interpretTopicalSimilarity(score) ==
  IF score >= 85 THEN Return("Highly relevant")
  ELSE IF score >= 70 THEN Return("Very relevant")
  ELSE IF score >= 55 THEN Return("Moderately relevant")
  ELSE IF score >= 40 THEN Return("Somewhat relevant")
  ELSE IF score >= 25 THEN Return("Loosely relevant")
  ELSE Return("Not relevant")

\* scores.reduce((acc, score) => acc + score, 0); the scores are integers
\* of at most three digits, so every partial sum is exact in binary64
RECURSIVE SumScores(_, _)
SumScores(scores, upto) ==
  IF upto = 0 THEN 0 ELSE SumScores(scores, upto - 1) + scores[upto]

\* Math.round(sum / scores.length) by sum and length
RoundedMean ==
  [sum \in 0..(MaxScore * MaxCands), len \in 1..MaxCands |->
     MathRound(FDiv(FFromInt(sum), FFromInt(len)))] @@ <<>>

MapScores(userInterestsEmbedding, postEmbeddings) ==
  [idx \in 1..Len(postEmbeddings) |->
     calculateTopicalSimilarityFromEmbeddings(userInterestsEmbedding,
                                              postEmbeddings[idx])]

MeanOfScores(calls) ==
  IF AnyThrown(calls) THEN FirstThrown(calls)
  ELSE Return(RoundedMean[SumScores(Values(calls), Len(calls)), Len(calls)])

\* the curved score of the mean similarity
CurveOfMean(batch) ==
  IF batch.threw THEN batch
  ELSE Return(CurveDirect(averageSimilarity(batch.value).value))

\* calculateAverageTopicalSimilarity curving the mean similarity
calculateAverageTopicalSimilarityCurveOfMean(userInterestsEmbedding, postEmbeddings) ==
  IF Len(postEmbeddings) = 0 THEN Return(0)
  ELSE CurveOfMean(batchCosineSimilarity(userInterestsEmbedding,
                                         postEmbeddings))

calculateAverageTopicalSimilarity(userInterestsEmbedding, postEmbeddings) ==
  IF Len(postEmbeddings) = 0 THEN Return(0)
  ELSE MeanOfScores(MapScores(userInterestsEmbedding, postEmbeddings))

----------------------------------------------------------------------------
(* CONSTANTS.SCORING_WEIGHTS (lib/config/constants.ts); a decimal literal   *)
(* is the binary64 number nearest to it.                                     *)

\* weights that sum to 1.05
SCORING_WEIGHTS_Unbalanced ==
  [ACTIVITY_FREQUENCY |-> FDiv(FFromInt(30), FHundred),
   FOLLOWER_RATIO |-> FDiv(FFromInt(25), FHundred),
   RECENT_POST_COUNT |-> FDiv(FFromInt(25), FHundred),
   TOPICAL_SIMILARITY |-> FDiv(FFromInt(25), FHundred)]

SCORING_WEIGHTS ==
  [ACTIVITY_FREQUENCY |-> FDiv(FFromInt(30), FHundred),
   FOLLOWER_RATIO |-> FDiv(FFromInt(25), FHundred),
   RECENT_POST_COUNT |-> FDiv(FFromInt(20), FHundred),
   TOPICAL_SIMILARITY |-> FDiv(FFromInt(25), FHundred)]

----------------------------------------------------------------------------
(* Strings of URLs, query parameters and environment variables.  A string  *)
(* is held as the sequence of its lexical pieces: a slash, a backslash, a  *)
(* tab, a scheme with its colon, a query beginning with "?", or a run of    *)
(* other characters; the empty string is the empty sequence.  null and      *)
(* undefined are the empty tuple where a value is optional, and a present   *)
(* value is the tuple of it.                                                *)

\* the special schemes of the URL standard that the model uses
Schemes == {"http:", "https:"}

IsSlash(piece) == piece \in {"/", "\\"}
IsQuery(piece) == piece \in {"?error=no_code", "?error=no_session",
                            "?error=authentication_failed&message="}

\* the URL parser removes ASCII tab and newline from its input
RemoveTabs(str) == SelectSeq(str, LAMBDA piece : piece \notin {"\t", "\n"})

\* the number of slashes and backslashes of str from position from on
LeadingSlashes(str, from) ==
  CHOOSE cnt \in 0..Len(str) :
    /\ from + cnt - 1 <= Len(str)
    /\ \A idx \in from..(from + cnt - 1) : IsSlash(str[idx])
    /\ from + cnt > Len(str) \/ ~IsSlash(str[from + cnt])

\* the position after the host that starts at from: the next slash,
\* backslash or query, or the end of str
HostEnd(str, from) ==
  CHOOSE idx \in from..(Len(str) + 1) :
    /\ idx = Len(str) + 1 \/ IsSlash(str[idx]) \/ IsQuery(str[idx])
    /\ \A before \in from..(idx - 1) :
         ~IsSlash(str[before]) /\ ~IsQuery(str[before])

\* the position of the query in str, or the position after its end
QueryStart(str) ==
  CHOOSE idx \in 1..(Len(str) + 1) :
    /\ idx = Len(str) + 1 \/ IsQuery(str[idx])
    /\ \A before \in 1..(idx - 1) : ~IsQuery(str[before])

\* a path with its backslashes read as slashes; the query is left as it is
Slashed(str) ==
  [idx \in 1..Len(str) |->
     IF idx < QueryStart(str) /\ IsSlash(str[idx]) THEN "/" ELSE str[idx]]

\* the path and query of a special URL from position from on; a path that
\* does not start with a slash is taken from the root "/"
PathOf(str, from) ==
  IF from <= Len(str) /\ IsSlash(str[from])
  THEN Slashed(SubSeq(str, from, Len(str)))
  ELSE Slashed(<<"/">> \o SubSeq(str, from, Len(str)))

InvalidURL ==
  [threw |-> TRUE,
   error |-> [name |-> "TypeError", message |-> <<"Invalid URL">>]]

\* the authority of a special URL: every slash and backslash before the
\* host is skipped, and a missing host is a failure
ParseAuthority(scheme, str, from) ==
  LET start == from + LeadingSlashes(str, from)
      end   == HostEnd(str, start)
  IN  IF end = start THEN InvalidURL
      ELSE Return([scheme |-> scheme,
                   host   |-> SubSeq(str, start, end - 1),
                   path   |-> PathOf(str, end)])

\* a string without a scheme against a base whose path is "/": two or more
\* leading slashes start an authority, one starts a path, and anything else
\* is a path relative to "/"
ParseRelative(str, base) ==
  IF LeadingSlashes(str, 1) >= 2 THEN ParseAuthority(base.scheme, str, 1)
  ELSE Return([scheme |-> base.scheme,
               host   |-> base.host,
               path   |-> PathOf(str, 1)])

\* new URL(input, origin): a string that starts with a special scheme is
\* absolute, unless the scheme is that of the base and fewer than two
\* slashes follow it
NewURL(input, base) ==
  LET str == RemoveTabs(input)
  IN  IF str # <<>> /\ str[1] \in Schemes
      THEN IF str[1] = base.scheme /\ LeadingSlashes(str, 2) < 2
           THEN ParseRelative(SubSeq(str, 2, Len(str)), base)
           ELSE ParseAuthority(str[1], str, 2)
      ELSE ParseRelative(str, base)

\* new URL(input) without a base, as z.string().url() calls it: the input
\* must be absolute
IsUrl(str) ==
  /\ RemoveTabs(str) # <<>>
  /\ RemoveTabs(str)[1] \in Schemes
  /\ ~ParseAuthority(RemoveTabs(str)[1], RemoveTabs(str), 2).threw

\* url.origin
Origin(url) == [scheme |-> url.scheme, host |-> url.host]

\* encodeURIComponent: the reserved characters and the space are escaped
encodeURIComponent(str) ==
  [idx \in 1..Len(str) |->
     IF str[idx] = " " THEN "%20"
     ELSE IF str[idx] = "&" THEN "%26"
     ELSE IF str[idx] = "/" THEN "%2F"
     ELSE IF str[idx] = "=" THEN "%3D"
     ELSE str[idx]]

----------------------------------------------------------------------------
(* The environment module (lib/config/env.ts).                             *)

ClientKeys ==
  {"NEXT_PUBLIC_SUPABASE_URL", "NEXT_PUBLIC_SUPABASE_ANON_KEY", "NODE_ENV"}
ServerKeys == {"OPENAI_API_KEY"}
EnvKeys == ClientKeys \cup ServerKeys

\* the values a variable of process.env takes in the model: unset, and
\* strings that pass and that fail its schema
EnvValues(key) ==
  IF key = "NEXT_PUBLIC_SUPABASE_URL"
  THEN {<<>>, <<<<"a.supabase.co">>>>,
        <<<<"https:", "/", "/", "a.supabase.co">>>>,
        <<<<"https:", "/", "/", "b.supabase.co">>>>}
  ELSE IF key = "NEXT_PUBLIC_SUPABASE_ANON_KEY"
  THEN {<<>>, <<<<>>>>, <<<<"anon-key">>>>}
  ELSE IF key = "NODE_ENV"
  THEN {<<>>, <<<<"production">>>>, <<<<"staging">>>>}
  ELSE {<<>>, <<<<>>>>, <<<<"sk-key">>>>}

NodeEnvs == {<<"development">>, <<"production">>, <<"test">>}

\* z.string().url(), z.string().min(1) and z.enum([...]).default(...)
UrlOk(opt) == opt # <<>> /\ IsUrl(opt[1])
MinOneOk(opt) == opt # <<>> /\ Len(opt[1]) >= 1
NodeEnvOk(opt) == opt = <<>> \/ opt[1] \in NodeEnvs

ClientValidationFailed ==
  Throw(<<"Client environment validation failed">>)
ServerValidationFailed ==
  Throw(<<"Server environment validation failed">>)
ServerEnvOnClient ==
  Throw(<<"Server environment variables cannot be accessed on the client-side">>)

\* clientEnvSchema.safeParse of the three variables, and the throw that
\* follows a failure
ParseClientEnv(penv) ==
  IF /\ UrlOk(penv["NEXT_PUBLIC_SUPABASE_URL"])
     /\ MinOneOk(penv["NEXT_PUBLIC_SUPABASE_ANON_KEY"])
     /\ NodeEnvOk(penv["NODE_ENV"])
  THEN Return([NEXT_PUBLIC_SUPABASE_URL |->
                 penv["NEXT_PUBLIC_SUPABASE_URL"][1],
               NEXT_PUBLIC_SUPABASE_ANON_KEY |->
                 penv["NEXT_PUBLIC_SUPABASE_ANON_KEY"][1],
               NODE_ENV |-> IF penv["NODE_ENV"] = <<>>
                            THEN <<"development">>
                            ELSE penv["NODE_ENV"][1]])
  ELSE ClientValidationFailed

\* serverEnvSchema.safeParse of OPENAI_API_KEY
ParseServerEnv(penv) ==
  IF MinOneOk(penv["OPENAI_API_KEY"])
  THEN Return([OPENAI_API_KEY |-> penv["OPENAI_API_KEY"][1]])
  ELSE ServerValidationFailed

\* what a validation leaves in the cache and gives to its caller
Validated(cached, result) == [cached |-> cached, result |-> result]
ValidatedParse(parsed) ==
  IF parsed.threw THEN Validated(<<>>, parsed)
  ELSE Validated(<<parsed.value>>, parsed)

\* validateClientEnv parsing the environment at every call
validateClientEnvNoCache(cached, penv) ==
  IF ParseClientEnv(penv).threw
  THEN Validated(cached, ParseClientEnv(penv))
  ELSE ValidatedParse(ParseClientEnv(penv))

\* validateClientEnv, by the cache and process.env at the call
validateClientEnv(cached, penv) ==
  IF cached # <<>> THEN Validated(cached, Return(cached[1]))
  ELSE ValidatedParse(ParseClientEnv(penv))

\* validateServerEnv, by the cache, typeof window !== 'undefined' and
\* process.env at the call
validateServerEnv(cached, hasWindow, penv) ==
  IF cached # <<>> THEN Validated(cached, Return(cached[1]))
  ELSE IF hasWindow THEN Validated(cached, ServerEnvOnClient)
  ELSE ValidatedParse(ParseServerEnv(penv))

\* the get trap of the two proxies: validated[prop]
ProxyGet(validated, prop) ==
  IF validated.result.threw THEN validated.result
  ELSE Return(validated.result.value[prop])

\* createClient and createServerSupabaseClient read env.NEXT_PUBLIC_SUPABASE_URL
\* and then env.NEXT_PUBLIC_SUPABASE_ANON_KEY; the second read finds the cache
\* that the first one left
CreateSupabaseClient(cached, penv) ==
  LET first  == validateClientEnv(cached, penv)
      second == validateClientEnv(first.cached, penv)
  IN  IF first.result.threw THEN first ELSE second

----------------------------------------------------------------------------
(* The auth callback route (app/auth/callback/route.ts).                   *)

\* requestUrl.origin
Origins ==
  {[scheme |-> "https:", host |-> <<"app.example">>],
   [scheme |-> "http:", host |-> <<"localhost:3000">>]}

\* searchParams.get('code'): null, the empty string or a code
Codes == {<<>>, <<<<>>>>, <<<<"code-1">>>>}

\* searchParams.get('next'): null or any string of the caller
NextValues ==
  {<<>>,
   <<<<>>>>,
   <<<<"/", "dashboard">>>>,
   <<<<"/", "settings">>>>,
   <<<<"settings">>>>,
   <<<<"/", "/", "evil.example">>>>,
   <<<<"/", "\\", "evil.example">>>>,
   <<<<"/", "\t", "/", "evil.example">>>>,
   <<<<"https:", "/", "/", "evil.example", "/", "x">>>>,
   <<<<"https:", "evil.example">>>>,
   <<<<"https:", "/", "/", "app.example", "/", "settings">>>>,
   <<<<"/", "/">>>>}

Requests == [origin : Origins, code : Codes, next : NextValues]

DefaultNext == <<"/", "dashboard">>

\* searchParams.get('next') ?? '/dashboard'
NextOf(request) ==
  IF request.next = <<>> THEN DefaultNext ELSE request.next[1]

\* what supabase.auth.exchangeCodeForSession resolves to: an error, no
\* error and no session, or a session
ErrorMessages == {<<"invalid", " ", "grant">>, <<"bad", "&", "code">>}
ExchangeResults ==
  {[error |-> <<message>>, session |-> FALSE] : message \in ErrorMessages}
  \cup {[error |-> <<>>, session |-> FALSE], [error |-> <<>>, session |-> TRUE]}

\* the three error redirects and the redirect after a session
NoCodeTarget(request) ==
  NewURL(<<"/", "?error=no_code">>, request.origin)
NoSessionTarget(request) ==
  NewURL(<<"/", "?error=no_session">>, request.origin)
FailedTarget(request, message) ==
  NewURL(<<"/", "?error=authentication_failed&message=">>
           \o encodeURIComponent(message),
         request.origin)
SuccessTarget(request) == NewURL(NextOf(request), request.origin)

\* the handler after the exchange resolved: the URL it redirects to, or the
\* TypeError of new URL
AfterExchange(request, result) ==
  IF result.error # <<>> THEN FailedTarget(request, result.error[1])
  ELSE IF ~result.session THEN NoSessionTarget(request)
  ELSE SuccessTarget(request)

----------------------------------------------------------------------------
(* The engagement repository (lib/repositories/engagement.repository.ts).  *)
(* A row of engagement_log is held by its user_id and engagement_score;    *)
(* the other columns play no part in the average.                          *)

MaxRows == 2
MaxEngagementScore == 2
UserIds == {"user-1", "user-2"}

\* the engagementScore argument: omitted or a number
ScoreArgs == {<<>>} \cup {<<score>> : score \in 0..MaxEngagementScore}

\* engagementScore || null: undefined and 0 both give null
OrNull(opt) == IF opt = <<>> \/ opt[1] = 0 THEN <<>> ELSE opt

\* the row that logEngagement inserts
InsertedRow(userId, engagementScore) ==
  [user_id |-> userId, engagement_score |-> OrNull(engagementScore)]

\* .eq('user_id', userId).not('engagement_score', 'is', null)
ScoredRows(rows, userId) ==
  SelectSeq(rows, LAMBDA row : /\ row.user_id = userId
                               /\ row.engagement_score # <<>>)

\* item.engagement_score || 0
OrZero(opt) == IF opt = <<>> THEN 0 ELSE opt[1]

\* data.reduce((acc, item) => acc + (item.engagement_score || 0), 0); the
\* scores are small integers, so every partial sum is exact
RECURSIVE SumEngagement(_, _)
SumEngagement(data, upto) ==
  IF upto = 0 THEN 0
  ELSE SumEngagement(data, upto - 1) + OrZero(data[upto].engagement_score)

\* sum / data.length by sum and length
EngagementMean ==
  [sum \in 0..(MaxEngagementScore * MaxRows), len \in 1..MaxRows |->
     FDiv(FFromInt(sum), FFromInt(len))] @@ <<>>

\* getAverageEngagementScore once the query returned rows
AverageOf(data) ==
  IF Len(data) = 0 THEN Return(FZero)
  ELSE Return(EngagementMean[SumEngagement(data, Len(data)), Len(data)])

----------------------------------------------------------------------------
(* The state: which exported function was called last (pc), the arguments  *)
(* of that call, and its outcome.  The functions keep no state of their     *)
(* own; a caller calls one, looks at the outcome and drops it, or keeps a   *)
(* copy of the call and its outcome (kept) to compare with a later call.    *)
(* scoringWeights is the SCORING_WEIGHTS object of the loaded               *)
(* configuration module.                                                    *)

VARIABLES pc, argA, argB, argQuery, argCandidates, argLimit, argThreshold,
          argSimilarity, argScore, argSimilarities, argTargets,
          outcome, kept, scoringWeights, argsAfter,
          authPc, authRequest, authExchanges, authResponses,
          processEnv, windowDefined, cachedClientEnv, cachedServerEnv,
          envRead, engagementLog, engagementGiven, engagementCall

rankerArgs == <<argQuery, argCandidates, argLimit, argThreshold>>
scorerArgs == <<argSimilarity, argScore, argSimilarities, argTargets>>

\* the state of the auth callback route, of the environment module and of
\* the engagement repository
authVars == <<authPc, authRequest, authExchanges, authResponses>>
envVars ==
  <<processEnv, windowDefined, cachedClientEnv, cachedServerEnv, envRead>>
engagementVars == <<engagementLog, engagementGiven, engagementCall>>
appVars == <<authVars, envVars, engagementVars>>

vars == <<pc, argA, argB, rankerArgs, scorerArgs, outcome, kept,
          scoringWeights, argsAfter, appVars>>

\* the modules are loaded and no request was made: the caches are empty,
\* process.env holds a configuration that validates, and the code runs on
\* the server
AuthInit ==
  /\ authPc = "idle"
  /\ authRequest = <<>>
  /\ authExchanges = <<>>
  /\ authResponses = <<>>
EnvInit ==
  /\ processEnv =
       [key \in EnvKeys |->
          IF key = "NEXT_PUBLIC_SUPABASE_URL"
          THEN <<<<"https:", "/", "/", "a.supabase.co">>>>
          ELSE IF key = "NEXT_PUBLIC_SUPABASE_ANON_KEY"
          THEN <<<<"anon-key">>>>
          ELSE IF key = "NODE_ENV" THEN <<>>
          ELSE <<<<"sk-key">>>>]
  /\ windowDefined = FALSE
  /\ cachedClientEnv = <<>>
  /\ cachedServerEnv = <<>>
  /\ envRead = <<>>
EngagementInit ==
  /\ engagementLog = <<>>
  /\ engagementGiven = <<>>
  /\ engagementCall = <<>>

\* no call in progress
NoCall ==
  /\ pc = "idle"
  /\ argA = <<>>
  /\ argB = <<>>
  /\ argQuery = <<>>
  /\ argCandidates = <<>>
  /\ argLimit = <<>>
  /\ argThreshold = <<>>
  /\ argSimilarity = <<>>
  /\ argScore = <<>>
  /\ argSimilarities = <<>>
  /\ argTargets = <<>>
  /\ outcome = Return(<<>>)
  /\ argsAfter = <<>>

Init ==
  /\ NoCall
  /\ kept = <<>>
  /\ scoringWeights = SCORING_WEIGHTS
  /\ AuthInit
  /\ EnvInit
  /\ EngagementInit

CallCosineSimilarity ==
  /\ pc = "idle"
  /\ \E vecA \in Vectors, vecB \in Vectors :
       /\ argA' = vecA
       /\ argB' = vecB
       /\ outcome' = cosineSimilarity(vecA, vecB)
  /\ UNCHANGED argsAfter
  /\ pc' = "cosineSimilarity"
  /\ UNCHANGED <<rankerArgs, scorerArgs, kept, scoringWeights, appVars>>

CallFindMostSimilar ==
  /\ pc = "idle"
  /\ \E query \in QueryVectors, vecs \in CandidateVectorLists,
        lim \in Limits, thr \in Thresholds :
       /\ argQuery' = query
       /\ argCandidates' = WithIds(vecs)
       /\ argLimit' = lim
       /\ argThreshold' = thr
       /\ outcome' = findMostSimilar(query, WithIds(vecs), lim, thr)
       /\ argsAfter' = findMostSimilarLeaves(query, WithIds(vecs), lim, thr)
  /\ pc' = "findMostSimilar"
  /\ UNCHANGED <<argA, argB, scorerArgs, kept, scoringWeights, appVars>>

CallBatchCosineSimilarity ==
  /\ pc = "idle"
  /\ \E query \in QueryVectors, vecs \in TargetLists :
       /\ argQuery' = query
       /\ argTargets' = vecs
       /\ outcome' = batchCosineSimilarity(query, vecs)
       /\ argsAfter' = batchCosineSimilarityLeaves(query, vecs)
  /\ pc' = "batchCosineSimilarity"
  /\ UNCHANGED <<argA, argB, argCandidates, argLimit, argThreshold,
                 argSimilarity, argScore, argSimilarities, kept,
                 scoringWeights, appVars>>

CallAverageSimilarity ==
  /\ pc = "idle"
  /\ \E sims \in SimilarityLists :
       /\ argSimilarities' = sims
       /\ outcome' = averageSimilarity(sims)
  /\ UNCHANGED argsAfter
  /\ pc' = "averageSimilarity"
  /\ UNCHANGED <<argA, argB, rankerArgs, argSimilarity, argScore,
                 argTargets, kept, scoringWeights, appVars>>

CallCalculateTopicalSimilarity ==
  /\ pc = "idle"
  /\ \E sim \in ScorerInputs :
       /\ argSimilarity' = sim
       /\ outcome' = calculateTopicalSimilarity(sim)
  /\ UNCHANGED argsAfter
  /\ pc' = "calculateTopicalSimilarity"
  /\ UNCHANGED <<argA, argB, rankerArgs, argScore, argSimilarities,
                 argTargets, kept, scoringWeights, appVars>>

CallNormalizeToPercent ==
  /\ pc = "idle"
  /\ \E sim \in ScorerInputs :
       /\ argSimilarity' = sim
       /\ outcome' = normalizeToPercent(sim)
  /\ UNCHANGED argsAfter
  /\ pc' = "normalizeToPercent"
  /\ UNCHANGED <<argA, argB, rankerArgs, argScore, argSimilarities,
                 argTargets, kept, scoringWeights, appVars>>

CallCalculateTopicalSimilarityFromEmbeddings ==
  /\ pc = "idle"
  /\ \E user \in QueryVectors, post \in CandidateVectors :
       /\ argA' = user
       /\ argB' = post
       /\ outcome' = calculateTopicalSimilarityFromEmbeddings(user, post)
  /\ UNCHANGED argsAfter
  /\ pc' = "calculateTopicalSimilarityFromEmbeddings"
  /\ UNCHANGED <<rankerArgs, scorerArgs, kept, scoringWeights, appVars>>

\* interpretTopicalSimilarity answering from the call the caller kept
CallInterpretTopicalSimilarityRemembering ==
  /\ pc = "idle"
  /\ \E points \in 0..MaxScore :
       /\ argScore' = points
       /\ outcome' = IF kept = <<>> THEN interpretTopicalSimilarity(points)
                     ELSE Return("Not relevant")
  /\ UNCHANGED argsAfter
  /\ pc' = "interpretTopicalSimilarity"
  /\ UNCHANGED <<argA, argB, rankerArgs, argSimilarity, argSimilarities,
                 argTargets, kept, scoringWeights, appVars>>

CallInterpretTopicalSimilarity ==
  /\ pc = "idle"
  /\ \E points \in 0..MaxScore :
       /\ argScore' = points
       /\ outcome' = interpretTopicalSimilarity(points)
  /\ UNCHANGED argsAfter
  /\ pc' = "interpretTopicalSimilarity"
  /\ UNCHANGED <<argA, argB, rankerArgs, argSimilarity, argSimilarities,
                 argTargets, kept, scoringWeights, appVars>>

CallCalculateAverageTopicalSimilarity ==
  /\ pc = "idle"
  /\ \E user \in QueryVectors, posts \in TargetLists :
       /\ argQuery' = user
       /\ argTargets' = posts
       /\ outcome' = calculateAverageTopicalSimilarity(user, posts)
  /\ UNCHANGED argsAfter
  /\ pc' = "calculateAverageTopicalSimilarity"
  /\ UNCHANGED <<argA, argB, argCandidates, argLimit, argThreshold,
                 argSimilarity, argScore, argSimilarities, kept,
                 scoringWeights, appVars>>

\* the call returns to the caller: no call is in progress any more
Returned ==
  /\ pc # "idle"
  /\ pc' = "idle"
  /\ argA' = <<>>
  /\ argB' = <<>>
  /\ argQuery' = <<>>
  /\ argCandidates' = <<>>
  /\ argLimit' = <<>>
  /\ argThreshold' = <<>>
  /\ argSimilarity' = <<>>
  /\ argScore' = <<>>
  /\ argSimilarities' = <<>>
  /\ argTargets' = <<>>
  /\ outcome' = Return(<<>>)
  /\ argsAfter' = <<>>
  /\ UNCHANGED <<scoringWeights, appVars>>

\* the caller drops the outcome
Discard == Returned /\ UNCHANGED kept

\* the arguments of the call in progress
Arguments ==
  <<argA, argB, argQuery, argCandidates, argLimit, argThreshold,
    argSimilarity, argScore, argSimilarities, argTargets>>

\* the calls a caller keeps: one that returns and, where the function can
\* fail, one that fails, for each function
KeptVectors == {<<>>, Staircase(MaxDim, 1)}
Kept ==
  \/ /\ pc = "cosineSimilarity"
     /\ argA = Staircase(MaxDim, 1)
     /\ argB \in KeptVectors
  \/ /\ pc \in {"findMostSimilar", "batchCosineSimilarity"}
     /\ argQuery = Staircase(MaxDim, 1)
     /\ argLimit = <<>>
     /\ argThreshold = <<>>
     /\ Len(argCandidates) + Len(argTargets) = 1
     /\ \A idx \in 1..Len(argCandidates) :
          argCandidates[idx].vector \in KeptVectors
     /\ \A idx \in 1..Len(argTargets) : argTargets[idx] \in KeptVectors
  \/ /\ pc = "averageSimilarity"
     /\ argSimilarities \in {<<>>, <<FOne, FZero>>}
  \/ /\ pc = "calculateTopicalSimilarity"
     /\ argSimilarity \in {FOne, FDiv(FOne, FFromInt(2))}
  \/ /\ pc = "interpretTopicalSimilarity"
     /\ argScore \in {0, MaxScore}

\* the caller keeps a copy of the call and its outcome
Keep ==
  /\ kept = <<>>
  /\ Kept
  /\ kept' = [fn |-> pc, arguments |-> Arguments, outcome |-> outcome]
  /\ Returned

NextCosine == CallCosineSimilarity \/ Discard
NextRanker == CallFindMostSimilar \/ Discard
NextScorer ==
  \/ CallBatchCosineSimilarity
  \/ CallAverageSimilarity
  \/ CallCalculateTopicalSimilarity
  \/ CallNormalizeToPercent
  \/ CallCalculateTopicalSimilarityFromEmbeddings
  \/ CallInterpretTopicalSimilarity
  \/ CallCalculateAverageTopicalSimilarity
  \/ Discard
Next ==
  \/ CallCosineSimilarity
  \/ CallFindMostSimilar
  \/ CallBatchCosineSimilarity
  \/ CallAverageSimilarity
  \/ CallCalculateTopicalSimilarity
  \/ CallNormalizeToPercent
  \/ CallCalculateTopicalSimilarityFromEmbeddings
  \/ CallInterpretTopicalSimilarity
  \/ CallCalculateAverageTopicalSimilarity
  \/ Discard
  \/ Keep

SpecCosine == Init /\ [][NextCosine]_vars
SpecRanker == Init /\ [][NextRanker]_vars
SpecScorer == Init /\ [][NextScorer]_vars
Spec == Init /\ [][Next]_vars

----------------------------------------------------------------------------
(* The environment module, the auth callback route and the engagement      *)
(* repository.  The environment module keeps two module-level caches; it    *)
(* reads process.env and the global window at each call, and both can       *)
(* differ from one call to the next.  The route handler and the repository  *)
(* keep no state of their own: the handler's request, exchange and response *)
(* and the rows of the engagement_log table are what they act on.           *)

fnVars ==
  <<pc, argA, argB, rankerArgs, scorerArgs, outcome, kept, scoringWeights,
    argsAfter>>

\* process.env.<key> is assigned or deleted
SetProcessEnvIn(keys) ==
  \E key \in keys :
    \E val \in EnvValues(key) :
      /\ processEnv[key] # val
      /\ processEnv' = [processEnv EXCEPT ![key] = val]

SetClientProcessEnv ==
  /\ SetProcessEnvIn(ClientKeys)
  /\ UNCHANGED <<fnVars, authVars, engagementVars, windowDefined,
                 cachedClientEnv, cachedServerEnv, envRead>>

SetServerProcessEnv ==
  /\ SetProcessEnvIn(ServerKeys)
  /\ UNCHANGED <<fnVars, authVars, engagementVars, windowDefined,
                 cachedClientEnv, cachedServerEnv, envRead>>

\* the global window is defined or deleted
SetWindow ==
  /\ windowDefined' = ~windowDefined
  /\ UNCHANGED <<fnVars, authVars, engagementVars, processEnv,
                 cachedClientEnv, cachedServerEnv, envRead>>

\* a read of env.<prop>
ReadEnv ==
  /\ \E prop \in ClientKeys :
       /\ cachedClientEnv' =
            validateClientEnv(cachedClientEnv, processEnv).cached
       /\ envRead' =
            <<[proxy     |-> "env",
               prop      |-> prop,
               hasWindow |-> windowDefined,
               outcome   |-> ProxyGet(validateClientEnv(cachedClientEnv,
                                                        processEnv), prop)]>>
  /\ UNCHANGED <<fnVars, authVars, engagementVars, processEnv, windowDefined,
                 cachedServerEnv>>

\* a read of serverEnv.<prop>
ReadServerEnv ==
  /\ \E prop \in ServerKeys :
       /\ cachedServerEnv' =
            validateServerEnv(cachedServerEnv, windowDefined,
                              processEnv).cached
       /\ envRead' =
            <<[proxy     |-> "serverEnv",
               prop      |-> prop,
               hasWindow |-> windowDefined,
               outcome   |-> ProxyGet(validateServerEnv(cachedServerEnv,
                                                        windowDefined,
                                                        processEnv), prop)]>>
  /\ UNCHANGED <<fnVars, authVars, engagementVars, processEnv, windowDefined,
                 cachedClientEnv>>

NextEnv ==
  \/ SetClientProcessEnv
  \/ SetServerProcessEnv
  \/ SetWindow
  \/ ReadEnv
  \/ ReadServerEnv

SpecEnv == Init /\ [][NextEnv]_vars

\* return NextResponse.redirect(url), or the exception that leaves GET
Respond(target) ==
  IF target.threw
  THEN authPc' = "threw" /\ authResponses' = authResponses
  ELSE authPc' = "responded"
       /\ authResponses' = Append(authResponses, target.value)

\* if (code): null and the empty string are falsy
HasCode(request) == request.code # <<>> /\ request.code[1] # <<>>

\* GET up to the await of exchangeCodeForSession, or up to its return when
\* the request has no code
AuthGetWith(request, client) ==
  /\ authRequest' = <<request>>
  /\ IF ~HasCode(request)
     THEN /\ Respond(NoCodeTarget(request))
          /\ UNCHANGED <<authExchanges, cachedClientEnv>>
     ELSE /\ cachedClientEnv' = client.cached
          /\ IF client.result.threw
             THEN /\ authPc' = "threw"
                  /\ UNCHANGED <<authExchanges, authResponses>>
             ELSE /\ authPc' = "exchanging"
                  /\ authExchanges' =
                       Append(authExchanges,
                              [code |-> request.code[1], result |-> <<>>])
                  /\ UNCHANGED authResponses

AuthGet ==
  /\ authPc = "idle"
  /\ \E request \in Requests :
       AuthGetWith(request, CreateSupabaseClient(cachedClientEnv, processEnv))
  /\ UNCHANGED <<fnVars, engagementVars, processEnv, windowDefined,
                 cachedServerEnv, envRead>>

\* exchangeCodeForSession resolves and GET runs to its end
AuthExchangeResolves ==
  /\ authPc = "exchanging"
  /\ \E result \in ExchangeResults :
       /\ authExchanges' =
            [authExchanges EXCEPT ![Len(authExchanges)].result = <<result>>]
       /\ Respond(AfterExchange(authRequest[1], result))
  /\ UNCHANGED <<fnVars, envVars, engagementVars, authRequest>>

\* the request is over; the next one can come
AuthNextRequest ==
  /\ authPc \in {"responded", "threw"}
  /\ authPc' = "idle"
  /\ authRequest' = <<>>
  /\ authExchanges' = <<>>
  /\ authResponses' = <<>>
  /\ UNCHANGED <<fnVars, envVars, engagementVars>>

NextAuth ==
  \/ AuthGet
  \/ AuthExchangeResolves
  \/ AuthNextRequest
  \/ SetClientProcessEnv

SpecAuth == Init /\ [][NextAuth]_vars

\* the outcome of a repository call
Called(fn, userId, result) ==
  <<[fn |-> fn, userId |-> userId, outcome |-> result]>>

\* logEngagement: createClient, then the insert, which returns the row or an
\* error
LogEngagementWith(userId, engagementScore, client, inserted) ==
  /\ cachedClientEnv' = client.cached
  /\ IF client.result.threw
     THEN /\ engagementCall' = Called("logEngagement", userId, client.result)
          /\ UNCHANGED <<engagementLog, engagementGiven>>
     ELSE IF ~inserted
     THEN /\ engagementCall' =
               Called("logEngagement", userId,
                      Throw(<<"Failed to log engagement: ", "insert failed">>))
          /\ UNCHANGED <<engagementLog, engagementGiven>>
     ELSE /\ engagementLog' =
               Append(engagementLog, InsertedRow(userId, engagementScore))
          /\ engagementGiven' =
               Append(engagementGiven,
                      [userId |-> userId, engagementScore |-> engagementScore])
          /\ engagementCall' =
               Called("logEngagement", userId,
                      Return(InsertedRow(userId, engagementScore)))

LogEngagement ==
  /\ Len(engagementLog) < MaxRows
  /\ \E userId \in UserIds, engagementScore \in ScoreArgs,
        inserted \in BOOLEAN :
       LogEngagementWith(userId, engagementScore,
                         CreateSupabaseClient(cachedClientEnv, processEnv),
                         inserted)
  /\ UNCHANGED <<fnVars, authVars, processEnv, windowDefined,
                 cachedServerEnv, envRead>>

\* getAverageEngagementScore: createClient, then the select, which returns
\* the rows or an error
GetAverageWith(userId, client, selected) ==
  /\ cachedClientEnv' = client.cached
  /\ engagementCall' =
       Called("getAverageEngagementScore", userId,
              IF client.result.threw THEN client.result
              ELSE IF ~selected
              THEN Throw(<<"Failed to get average engagement score: ",
                           "select failed">>)
              ELSE AverageOf(ScoredRows(engagementLog, userId)))

GetAverageEngagementScore ==
  /\ \E userId \in UserIds, selected \in BOOLEAN :
       GetAverageWith(userId,
                      CreateSupabaseClient(cachedClientEnv, processEnv),
                      selected)
  /\ UNCHANGED <<fnVars, authVars, processEnv, windowDefined,
                 cachedServerEnv, envRead, engagementLog, engagementGiven>>

NextEngagement ==
  \/ LogEngagement
  \/ GetAverageEngagementScore
  \/ SetClientProcessEnv

SpecEngagement == Init /\ [][NextEngagement]_vars

----------------------------------------------------------------------------
(* Properties of findMostSimilar, checked under SpecRanker *)

RankerReturned == pc = "findMostSimilar" /\ ~outcome.threw

\* the limit and threshold in force in the last call of findMostSimilar
EffectiveLimit == IF argLimit = <<>> THEN DefaultLimit ELSE argLimit[1]
EffectiveThreshold ==
  IF argThreshold = <<>> THEN DefaultThreshold ELSE argThreshold[1]

\* the position in the input list of the candidate with the given id
InputIndex(id) ==
  CHOOSE idx \in 1..Len(argCandidates) : argCandidates[idx].id = id

\* the similarity of the candidate at a position of the input list
SimilarityAt(idx) == cosineSimilarity(argQuery, argCandidates[idx].vector).value

\* C1: the results of findMostSimilar are in non-increasing order of
\* similarity, and results of equal similarity are in the order of their
\* candidates in the input list.
C1_SortedDescendingStable ==
  RankerReturned =>
    \A first, second \in 1..Len(outcome.value) :
      first < second =>
        LET cmp == FCmp(outcome.value[first].similarity,
                        outcome.value[second].similarity)
        IN  \/ cmp > 0
            \/ /\ cmp = 0
               /\ InputIndex(outcome.value[first].sourceId)
                    < InputIndex(outcome.value[second].sourceId)

\* C1 witness: two results of equal, non-zero similarity were returned
C1_Witness ==
  /\ RankerReturned
  /\ Len(outcome.value) = 2
  /\ outcome.value[1].similarity = outcome.value[2].similarity
  /\ outcome.value[1].similarity # FZero

\* C2: every result has similarity >= threshold, and the bound is inclusive:
\* when the limit cannot truncate, exactly the candidates with
\* similarity >= threshold are returned, those equal to it included.
C2_ThresholdInclusive ==
  RankerReturned =>
    /\ \A pos \in 1..Len(outcome.value) :
         FCmp(outcome.value[pos].similarity, EffectiveThreshold) >= 0
    /\ EffectiveLimit >= Len(argCandidates) =>
         {outcome.value[pos].sourceId : pos \in 1..Len(outcome.value)}
           = {argCandidates[idx].id : idx \in
                {idx \in 1..Len(argCandidates) :
                   FCmp(SimilarityAt(idx), EffectiveThreshold) >= 0}}

\* C2 witness: a result whose similarity equals a threshold given by the
\* caller was returned
C2_Witness ==
  /\ RankerReturned
  /\ argThreshold # <<>>
  /\ \E pos \in 1..Len(outcome.value) :
       outcome.value[pos].similarity = EffectiveThreshold

\* C3: findMostSimilar never returns more than limit results, for positive,
\* zero and negative limits (no results at all for a limit below zero).
C3_AtMostLimit ==
  RankerReturned => Len(outcome.value) <= Max(EffectiveLimit, 0)

\* C4: findMostSimilar with a limit <= 0 returns the empty sequence and
\* raises no error, for valid candidates.
C4_NonPositiveLimitEmpty ==
  (/\ pc = "findMostSimilar"
   /\ EffectiveLimit <= 0
   /\ Len(argQuery) > 0
   /\ \A idx \in 1..Len(argCandidates) :
        Len(argCandidates[idx].vector) = Len(argQuery))
    => outcome = Return(<<>>)

----------------------------------------------------------------------------
(* Properties of cosineSimilarity, checked under SpecCosine *)

CosineCalled == pc = "cosineSimilarity"

IsZeroVector(vec) == \A idx \in 1..Len(vec) : vec[idx] = 0

\* both arguments are non-empty and of one length
ValidArguments == Len(argA) = Len(argB) /\ Len(argA) > 0

\* C5: cosineSimilarity(a, b) and cosineSimilarity(b, a) return the same
\* value, and one fails exactly when the other does.
C5_Symmetric ==
  CosineCalled =>
    LET swapped == cosineSimilarity(argB, argA)
    IN  /\ outcome.threw = swapped.threw
        /\ ~outcome.threw => outcome.value = swapped.value

\* C5 witness: two different vectors with a non-zero similarity
C5_Witness ==
  /\ CosineCalled
  /\ argA # argB
  /\ ~outcome.threw
  /\ outcome.value # FZero
  /\ SumProducts(argA, argA, 1) # SumProducts(argB, argB, 1)

OneMinusTolerance == FRound(1, BSub(BShl(<<1>>, 53), <<4>>), FALSE, -53)
OnePlusTolerance == FRound(1, BAdd(BShl(<<1>>, 52), <<2>>), FALSE, -52)

C7_ZeroVectorGivesZero ==
  (CosineCalled /\ ValidArguments
     /\ (IsZeroVector(argA) \/ IsZeroVector(argB)))
    => outcome = Return(FZero)

\* C7 witness: exactly one of the two vectors is the zero vector
C7_Witness ==
  /\ CosineCalled
  /\ ValidArguments
  /\ IsZeroVector(argA)
  /\ ~IsZeroVector(argB)
  /\ outcome = Return(FZero)

\* the errors of the two kinds of invalid arguments
IsDimensionMismatch(res) ==
  /\ res.threw
  /\ res.error.message[1] = "Vector dimensions must match: "
IsEmptyVector(res) ==
  /\ res.threw
  /\ res.error.message = <<"Vectors cannot be empty">>

\* C8: two non-empty vectors of different lengths fail with the dimension
\* error, two empty vectors fail with the empty-vector error, the two errors
\* differ, and no number is returned in either case.
C8_ErrorKinds ==
  CosineCalled =>
    /\ (Len(argA) # Len(argB) /\ Len(argA) > 0 /\ Len(argB) > 0)
         => IsDimensionMismatch(outcome) /\ ~IsEmptyVector(outcome)
    /\ (Len(argA) = 0 /\ Len(argB) = 0)
         => IsEmptyVector(outcome) /\ ~IsDimensionMismatch(outcome)

\* C8 witness: two empty vectors were rejected
C8_Witness ==
  /\ CosineCalled
  /\ Len(argA) = 0
  /\ Len(argB) = 0
  /\ outcome.threw

\* C9: every value returned by cosineSimilarity lies in [-1, 1].
C9_InUnitInterval ==
  (CosineCalled /\ ~outcome.threw)
    => /\ FCmp(outcome.value, FOne) <= 0
       /\ FCmp(outcome.value, FMinusOne) >= 0

\* vecB is vecA multiplied by a negative integer
IsNegativeMultiple(vecA, vecB) ==
  \E factor \in 1..MaxComp :
    \A idx \in 1..Len(vecA) : vecB[idx] = -factor * vecA[idx]

\* C10: for non-zero vectors cosineSimilarity is dot / (|a| * |b|) over all
\* components: 0 when the dot product is 0, and -1 when b is a negative
\* multiple of a.
C10_ReferenceValue ==
  (CosineCalled /\ ValidArguments
     /\ ~IsZeroVector(argA) /\ ~IsZeroVector(argB))
    => /\ ~outcome.threw
       /\ outcome.value =
            FDiv(FFromInt(SumProducts(argA, argB, 1)),
                 FMul(MathSqrt[SumProducts(argA, argA, 1)],
                      MathSqrt[SumProducts(argB, argB, 1)]))
       /\ SumProducts(argA, argB, 1) = 0 => outcome.value = FZero
       /\ IsNegativeMultiple(argA, argB) => outcome.value = FMinusOne

----------------------------------------------------------------------------
(* Properties of the topical-similarity scorer and of the batch helpers,   *)
(* checked under SpecScorer                                                 *)

TopicalCalled == pc = "calculateTopicalSimilarity"

\* the score calculateTopicalSimilarity returns for a similarity
ScoreFor(similarity) == calculateTopicalSimilarity(similarity).value

\* C11: calculateTopicalSimilarity is monotonically non-decreasing over all
\* similarities, inside or outside [0, 1], and maps 0 to 0 and 1 to 100.
C11_MonotoneWithEndpoints ==
  TopicalCalled =>
    /\ ~outcome.threw
    /\ \A other \in ScorerInputs :
         /\ FCmp(argSimilarity, other) <= 0
              => outcome.value <= ScoreFor(other)
         /\ FCmp(other, argSimilarity) <= 0
              => ScoreFor(other) <= outcome.value
    /\ argSimilarity = FZero => outcome.value = 0
    /\ argSimilarity = FOne => outcome.value = 100

\* C11 witness: a similarity strictly inside (0, 1) got a score strictly
\* between the scores of 0 and of 1
C11_Witness ==
  /\ TopicalCalled
  /\ FCmp(FZero, argSimilarity) < 0
  /\ FCmp(argSimilarity, FOne) < 0
  /\ ~outcome.threw
  /\ ScoreFor(FZero) < outcome.value
  /\ outcome.value < ScoreFor(FOne)

\* both vectors are non-empty and of one length
ValidPair(vecA, vecB) == Len(vecA) = Len(vecB) /\ Len(vecA) > 0

\* every target is a valid partner of the query
ValidTargets(query, targets) ==
  \A idx \in 1..Len(targets) : ValidPair(query, targets[idx])

IsScore(call) == ~call.threw /\ call.value \in 0..100

BPow5(a) == BMul(a, BPow4(a))

\* 32 * 100^5 * s^4 * 2^(-4 * s.exp) for a similarity 0 < s <= 1
CurveScaled(similarity) ==
  BMul(BMul(BFromInt(320000), BFromInt(1000000)), BPow4(similarity.man))

\* bound^5 * 2^(-4 * exp): the fifth power of twice a bound of the rounding
\* interval, on the scale of CurveScaled
BoundScaled(bound, exp) == BShl(BPow5(bound), -4 * exp)

\* (points - 1/2)^5 <= 100^5 * s^4 < (points + 1/2)^5
IsNearest(similarity, points) ==
  IF similarity.sgn = 0 THEN points = 0
  ELSE /\ points >= 0
       /\ points >= 1 =>
            BCmp(BoundScaled(BFromInt(2 * points - 1), similarity.exp),
                 CurveScaled(similarity)) <= 0
       /\ BCmp(CurveScaled(similarity),
               BoundScaled(BFromInt(2 * points + 1), similarity.exp)) < 0

InUnitRange(similarity) ==
  FCmp(FZero, similarity) <= 0 /\ FCmp(similarity, FOne) <= 0

FHalf == FDiv(FOne, FFromInt(2))

\* C13 as claimed: for every similarity s in [0, 1] the score is the integer
\* nearest to 100 * s^0.8, halves rounded up, that is the integer k with
\* (k - 1/2)^5 <= 100^5 * s^4 < (k + 1/2)^5, and the score of 0.5 is 57.
C13_NearestInteger ==
  (TopicalCalled /\ InUnitRange(argSimilarity)) =>
    /\ ~outcome.threw
    /\ IsNearest(argSimilarity, outcome.value)
    /\ argSimilarity = FHalf => outcome.value = 57

\* (points - 1/2 - 2^-41)^5 <= 100^5 * s^4 < (points + 1/2 + 2^-41)^5
IsNearestWithinRounding(similarity, points) ==
  IF similarity.sgn = 0 THEN points = 0
  ELSE /\ points >= 0
       /\ points >= 1 =>
            BCmp(BoundScaled(BSub(BShl(BFromInt(2 * points - 1), 40), <<1>>),
                             similarity.exp),
                 BShl(CurveScaled(similarity), 200)) <= 0
       /\ BCmp(BShl(CurveScaled(similarity), 200),
               BoundScaled(BAdd(BShl(BFromInt(2 * points + 1), 40), <<1>>),
                           similarity.exp)) < 0

\* C13 amended: for every similarity s in [0, 1] the score is an integer k
\* with k - 1/2 <= 100 * s^0.8 < k + 1/2 up to the rounding of the binary64
\* operations (2^-41 here), and the score of 0.5 is 57.
C13_NearestWithinRounding ==
  (TopicalCalled /\ InUnitRange(argSimilarity)) =>
    /\ ~outcome.threw
    /\ IsNearestWithinRounding(argSimilarity, outcome.value)
    /\ argSimilarity = FHalf => outcome.value = 57

\* C13 witness: the score of 0.5 was computed
C13_Witness ==
  /\ TopicalCalled
  /\ argSimilarity = FHalf
  /\ outcome = Return(57)

\* C14: calculateTopicalSimilarity raises no error for a similarity outside
\* [0, 1]: below 0 the score is that of 0, which is 0, and above 1 it is that
\* of 1, which is 100.
C14_OutOfRangeClamped ==
  TopicalCalled =>
    /\ ~outcome.threw
    /\ FCmp(argSimilarity, FZero) < 0
         => outcome.value = ScoreFor(FZero) /\ outcome.value = 0
    /\ FCmp(argSimilarity, FOne) > 0
         => outcome.value = ScoreFor(FOne) /\ outcome.value = 100

\* C14 witness: the score of a similarity that cosineSimilarity returned
\* above 1
C14_Witness ==
  /\ TopicalCalled
  /\ argSimilarity \in CosineValues
  /\ FCmp(argSimilarity, FOne) > 0
  /\ outcome = Return(100)

\* the six labels from the lowest rank to the highest, and the lowest score
\* of each
Labels ==
  <<"Not relevant", "Loosely relevant", "Somewhat relevant",
    "Moderately relevant", "Very relevant", "Highly relevant">>
BandFloor == <<0, 25, 40, 55, 70, 85>>

RankOf(label) == CHOOSE rank \in 1..Len(Labels) : Labels[rank] = label

\* the band a score falls in
BandOf(points) ==
  CHOOSE rank \in 1..Len(Labels) :
    /\ BandFloor[rank] <= points
    /\ rank < Len(Labels) => points < BandFloor[rank + 1]

InterpretCalled == pc = "interpretTopicalSimilarity"

\* C15: interpretTopicalSimilarity maps every score in 0..100 to the label
\* of its band, the bands being inclusive on their lower bound (85..100,
\* 70..84, 55..69, 40..54, 25..39, 0..24): 84 is 'Very relevant', 85 is
\* 'Highly relevant', and a higher score never gets a label of lower rank.
C15_LabelBands ==
  InterpretCalled =>
    /\ outcome = Return(Labels[BandOf(argScore)])
    /\ argScore = 84 => outcome = Return("Very relevant")
    /\ argScore = 85 => outcome = Return("Highly relevant")
    /\ \A lower \in 0..argScore :
         RankOf(interpretTopicalSimilarity(lower).value)
           <= RankOf(outcome.value)

\* C15 witness: the lowest score of the highest band was interpreted
C15_Witness ==
  /\ InterpretCalled
  /\ argScore = 85
  /\ outcome = Return("Highly relevant")

AverageTopicalCalled == pc = "calculateAverageTopicalSimilarity"

\* the per-target calls of calculateTopicalSimilarityFromEmbeddings
PerTarget(idx) ==
  calculateTopicalSimilarityFromEmbeddings(argQuery, argTargets[idx])

RECURSIVE SumPerTarget(_)
SumPerTarget(upto) ==
  IF upto = 0 THEN 0 ELSE SumPerTarget(upto - 1) + PerTarget(upto).value

\* the integer nearest to sum / count, halves rounded up
RoundHalfUp(sum, count) == (2 * sum + count) \div (2 * count)

\* C16: for a non-empty target list calculateAverageTopicalSimilarity
\* returns the rounded arithmetic mean of the per-target scores
\* calculateTopicalSimilarityFromEmbeddings(query, target_i), not the score
\* of the mean similarity (the two differ on some inputs: the witness).
C16_MeanOfCurvedScores ==
  (/\ AverageTopicalCalled
   /\ Len(argTargets) > 0
   /\ Len(argQuery) > 0
   /\ ValidTargets(argQuery, argTargets)) =>
    outcome = Return(RoundHalfUp(SumPerTarget(Len(argTargets)),
                                 Len(argTargets)))

\* C16 witness: the returned mean of the scores differs from the score of
\* the mean similarity
C16_Witness ==
  /\ AverageTopicalCalled
  /\ Len(argTargets) > 1
  /\ Len(argQuery) > 0
  /\ ValidTargets(argQuery, argTargets)
  /\ ~outcome.threw
  /\ outcome # CurveOfMean(batchCosineSimilarity(argQuery, argTargets))

AverageCalled == pc = "averageSimilarity"

\* the binary64 sum of the elements from..Len(list) added to acc, left to
\* right
RECURSIVE SumFrom(_, _, _)
SumFrom(list, from, acc) ==
  IF from > Len(list) THEN acc
  ELSE SumFrom(list, from + 1, FAdd(acc, list[from]))

\* C17: averageSimilarity returns the arithmetic mean, the sum of the
\* elements divided by their number (in binary64, added left to right), for
\* every non-empty list, so a list of one element or of two equal elements
\* gives that element; for the empty list it returns 0 and raises no error.
C17_ArithmeticMean ==
  AverageCalled =>
    /\ ~outcome.threw
    /\ argSimilarities = <<>> => outcome.value = FZero
    /\ argSimilarities # <<>> =>
         outcome.value = FDiv(SumFrom(argSimilarities, 1, FZero),
                              FFromInt(Len(argSimilarities)))
    /\ (/\ argSimilarities # <<>>
        /\ \A idx \in 1..Len(argSimilarities) :
             argSimilarities[idx] = argSimilarities[1]
        /\ Len(argSimilarities) <= 2) => outcome.value = argSimilarities[1]

\* C17 witness: the mean of two different similarities lies strictly
\* between them
C17_Witness ==
  /\ AverageCalled
  /\ Len(argSimilarities) = 2
  /\ ~outcome.threw
  /\ FCmp(argSimilarities[1], outcome.value) < 0
  /\ FCmp(outcome.value, argSimilarities[2]) < 0

----------------------------------------------------------------------------
(* Fail-fast ranking, checked under SpecRanker *)

\* the candidate at a position has an empty vector or one not of the length
\* of the query vector
Malformed(idx) ==
  \/ Len(argCandidates[idx].vector) # Len(argQuery)
  \/ Len(argCandidates[idx].vector) = 0

MalformedPositions == {idx \in 1..Len(argCandidates) : Malformed(idx)}

\* C19: when any candidate, at any position and whatever the limit and the
\* threshold, is malformed, findMostSimilar fails with the error of the
\* first malformed candidate and returns no list: the candidate is not
\* skipped, padded or truncated.
C19_FailsFast ==
  (pc = "findMostSimilar" /\ MalformedPositions # {}) =>
    /\ outcome.threw
    /\ "value" \notin DOMAIN outcome
    /\ \E first \in MalformedPositions :
         /\ \A idx \in MalformedPositions : first <= idx
         /\ outcome = cosineSimilarity(argQuery, argCandidates[first].vector)

\* C19 witness: the call failed on a vector one component short in the
\* second position, behind a well-formed candidate, with a limit of 1 and a
\* threshold of 1
C19_Witness ==
  /\ pc = "findMostSimilar"
  /\ Len(argCandidates) = 2
  /\ MalformedPositions = {2}
  /\ Len(argCandidates[2].vector) > 0
  /\ argLimit = <<1>>
  /\ argThreshold = <<FOne>>
  /\ outcome.threw

----------------------------------------------------------------------------
(* Properties of all the functions together, checked under Spec *)

WeightNames ==
  {"ACTIVITY_FREQUENCY", "FOLLOWER_RATIO", "RECENT_POST_COUNT",
   "TOPICAL_SIMILARITY"}

\* the binary64 sum of the weights in the order of their declaration
WeightSum ==
  FAdd(FAdd(FAdd(scoringWeights.ACTIVITY_FREQUENCY,
                 scoringWeights.FOLLOWER_RATIO),
            scoringWeights.RECENT_POST_COUNT),
       scoringWeights.TOPICAL_SIMILARITY)

WeightsWellFormed ==
  /\ DOMAIN scoringWeights = WeightNames
  /\ \A name \in WeightNames : scoringWeights[name].sgn >= 0
  /\ WeightSum = FOne

\* C20: the scoring weights are exactly four coefficients, each
\* non-negative, that sum to exactly 1.0, and no operation changes them.
C20_WeightsConstant ==
  /\ []WeightsWellFormed
  /\ [][scoringWeights' = scoringWeights]_vars

\* C20 witness: the weights of the configuration after a kept call and a
\* later call
C20_Witness ==
  /\ kept # <<>>
  /\ pc # "idle"
  /\ scoringWeights = SCORING_WEIGHTS
  /\ WeightsWellFormed

----------------------------------------------------------------------------
(* cosineSimilarity with one empty argument, checked under SpecCosine *)

\* exactly one of the two arguments is empty
OneEmpty == (Len(argA) = 0) # (Len(argB) = 0)

\* C22 as stated: a call with exactly one empty vector fails with the
\* empty-vector error.
C22_OneEmptyGivesEmptyVector ==
  (CosineCalled /\ OneEmpty) => IsEmptyVector(outcome)

\* C22: a call with exactly one empty vector, in either argument order,
\* fails with the dimension error naming the two lengths, not with the
\* empty-vector error; no number is returned.
C22_OneEmptyGivesDimensionMismatch ==
  (CosineCalled /\ OneEmpty) =>
    /\ outcome = Throw(<<"Vector dimensions must match: ", Len(argA), " vs ",
                         Len(argB)>>)
    /\ IsDimensionMismatch(outcome)
    /\ ~IsEmptyVector(outcome)

\* C22 witness: an empty first argument and a non-empty second one were
\* rejected
C22_Witness ==
  /\ CosineCalled
  /\ Len(argA) = 0
  /\ Len(argB) = MaxDim
  /\ outcome.threw

----------------------------------------------------------------------------
(* The arguments of findMostSimilar and batchCosineSimilarity after the    *)
(* call, checked under Spec *)

----------------------------------------------------------------------------
(* The top of the ranking, checked under SpecRanker *)

\* the positions of the candidates whose similarity passes the threshold
Passing ==
  {idx \in 1..Len(argCandidates) :
     FCmp(SimilarityAt(idx), EffectiveThreshold) >= 0}

\* the positions of the candidates that were returned
ReturnedPositions ==
  {InputIndex(outcome.value[pos].sourceId) : pos \in 1..Len(outcome.value)}

\* C24: for limit > 0 findMostSimilar returns min(limit, number of passing
\* candidates) results, each the id and similarity of a different
\* candidate, and no passing candidate that is left out has a strictly
\* higher similarity than a returned one.
C24_TopScoring ==
  (RankerReturned /\ EffectiveLimit > 0) =>
    /\ Len(outcome.value) = Min(EffectiveLimit, Cardinality(Passing))
    /\ \A pos \in 1..Len(outcome.value) :
         /\ \E idx \in 1..Len(argCandidates) :
              argCandidates[idx].id = outcome.value[pos].sourceId
         /\ outcome.value[pos].similarity
              = SimilarityAt(InputIndex(outcome.value[pos].sourceId))
    /\ Cardinality(ReturnedPositions) = Len(outcome.value)
    /\ \A out \in Passing \ ReturnedPositions :
         \A pos \in 1..Len(outcome.value) :
           FCmp(SimilarityAt(out), outcome.value[pos].similarity) <= 0

\* C24 witness: with limit 1 the second of two passing candidates was
\* returned, the first one having a lower similarity
C24_Witness ==
  /\ RankerReturned
  /\ EffectiveLimit = 1
  /\ Cardinality(Passing) = 2
  /\ Len(outcome.value) = 1
  /\ outcome.value[1].sourceId = argCandidates[2].id
  /\ FCmp(SimilarityAt(1), SimilarityAt(2)) < 0

----------------------------------------------------------------------------
(* The curve against the linear mapping, checked under SpecScorer *)

\* C25: calculateTopicalSimilarity(s) >= normalizeToPercent(s) for every
\* similarity s, with equality for s <= 0 and for s >= 1, and 57 against 50
\* at s = 0.5.
C25_CurveNotBelowLinear ==
  /\ pc = "calculateTopicalSimilarity" =>
       /\ outcome.value >= normalizeToPercent(argSimilarity).value
       /\ (FCmp(argSimilarity, FZero) <= 0 \/ FCmp(argSimilarity, FOne) >= 0)
            => outcome.value = normalizeToPercent(argSimilarity).value
       /\ argSimilarity = FDiv(FOne, FFromInt(2)) => outcome.value = 57
  /\ pc = "normalizeToPercent" =>
       /\ outcome.value <= calculateTopicalSimilarity(argSimilarity).value
       /\ argSimilarity = FDiv(FOne, FFromInt(2)) => outcome.value = 50

\* C25 witness: normalizeToPercent(0.5) returned 50, which the curve takes
\* to 57
C25_Witness ==
  /\ pc = "normalizeToPercent"
  /\ argSimilarity = FDiv(FOne, FFromInt(2))
  /\ outcome = Return(50)
  /\ calculateTopicalSimilarity(argSimilarity) = Return(57)

----------------------------------------------------------------------------
(* Properties of the auth callback route, checked under SpecAuth *)

\* GET has returned a response or thrown
AuthFinished == authPc \in {"responded", "threw"}

\* the exchange of the request resolved without error and with a session
ExchangeSucceeded ==
  /\ Len(authExchanges) = 1
  /\ authExchanges[1].result # <<>>
  /\ authExchanges[1].result[1].error = <<>>
  /\ authExchanges[1].result[1].session

\* the path of the redirect that reports a failed exchange
IsFailedTarget(url, request) ==
  /\ Origin(url) = request.origin
  /\ Len(url.path) >= 2
  /\ url.path[1] = "/"
  /\ url.path[2] = "?error=authentication_failed&message="

\* the redirect of each branch of the handler, for a request that was
\* answered
AuthBranchTargets ==
  authPc = "responded" =>
    /\ (/\ ~SuccessTarget(authRequest[1]).threw
        /\ authResponses[1] = SuccessTarget(authRequest[1]).value)
         => HasCode(authRequest[1]) /\ ExchangeSucceeded
    /\ ~HasCode(authRequest[1]) =>
         /\ authResponses[1] = NoCodeTarget(authRequest[1]).value
         /\ authExchanges = <<>>
    /\ HasCode(authRequest[1]) =>
         /\ Len(authExchanges) = 1
         /\ authExchanges[1].code = authRequest[1].code[1]
         /\ authExchanges[1].result # <<>>
    /\ (HasCode(authRequest[1]) /\ authExchanges[1].result[1].error # <<>>)
         => IsFailedTarget(authResponses[1], authRequest[1])
    /\ (/\ HasCode(authRequest[1])
        /\ authExchanges[1].result[1].error = <<>>
        /\ ~authExchanges[1].result[1].session)
         => authResponses[1] = NoSessionTarget(authRequest[1]).value

\* C26: every request is answered with exactly one redirect: to the next
\* target only after a code was exchanged without error for a session, to
\* /?error=no_code without an exchange when there is no code, to
\* /?error=authentication_failed after an exchange error and to
\* /?error=no_session when the exchange gave no session.
C26_OneRedirectPerRequest ==
  /\ AuthFinished => Len(authResponses) = 1
  /\ AuthBranchTargets

\* C27: after a successful exchange the redirect has the origin of the
\* request, whatever the next parameter is.
C27_SameOriginAfterSuccess ==
  (authPc = "responded" /\ ExchangeSucceeded)
    => Origin(authResponses[1]) = authRequest[1].origin

----------------------------------------------------------------------------
(* Properties of the environment module, checked under SpecEnv *)

\* the last read, when there was one
LastRead == envRead[1]

\* C28: the client cache changes only from empty to the values that a read
\* of env validated at that moment, and never again; a read that fails
\* validation throws and leaves the cache empty, and a read made when the
\* cache is set returns the cached value, whatever process.env holds then.
C28_ClientCacheSetOnce ==
  [][/\ cachedClientEnv # <<>> => cachedClientEnv' = cachedClientEnv
     /\ cachedClientEnv' # cachedClientEnv =>
          /\ ReadEnv
          /\ ~ParseClientEnv(processEnv).threw
          /\ cachedClientEnv' = <<ParseClientEnv(processEnv).value>>
     /\ ReadEnv =>
          IF cachedClientEnv # <<>>
          THEN LastRead'.outcome
                 = Return(cachedClientEnv[1][LastRead'.prop])
          ELSE IF ParseClientEnv(processEnv).threw
          THEN LastRead'.outcome.threw /\ cachedClientEnv' = <<>>
          ELSE /\ cachedClientEnv' = <<ParseClientEnv(processEnv).value>>
               /\ LastRead'.outcome
                    = Return(ParseClientEnv(processEnv).value[LastRead'.prop])
    ]_vars

\* C28 witness: after the Supabase URL in process.env changed, a read of
\* env.NEXT_PUBLIC_SUPABASE_URL returned the URL that was cached before
C28_Witness ==
  /\ cachedClientEnv # <<>>
  /\ envRead # <<>>
  /\ LastRead.proxy = "env"
  /\ LastRead.prop = "NEXT_PUBLIC_SUPABASE_URL"
  /\ LastRead.outcome = Return(cachedClientEnv[1].NEXT_PUBLIC_SUPABASE_URL)
  /\ processEnv["NEXT_PUBLIC_SUPABASE_URL"]
       = <<<<"https:", "/", "/", "b.supabase.co">>>>
  /\ cachedClientEnv[1].NEXT_PUBLIC_SUPABASE_URL
       = <<"https:", "/", "/", "a.supabase.co">>

\* C29: every read of a serverEnv property made while window is defined
\* throws.
C29_ServerEnvThrowsOnClient ==
  (envRead # <<>> /\ LastRead.proxy = "serverEnv" /\ LastRead.hasWindow)
    => LastRead.outcome.threw

----------------------------------------------------------------------------
(* Properties of the engagement repository, checked under SpecEngagement *)

\* the scores that were given for a user, in the order of their rows
GivenScores(userId) ==
  SelectSeq(engagementGiven,
            LAMBDA given : /\ given.userId = userId
                           /\ given.engagementScore # <<>>)

RECURSIVE SumGiven(_, _)
SumGiven(given, upto) ==
  IF upto = 0 THEN 0
  ELSE SumGiven(given, upto - 1) + given[upto].engagementScore[1]

\* the mean of the scores that were given for a user, 0 when there is none
MeanGiven(userId) ==
  IF Len(GivenScores(userId)) = 0 THEN FZero
  ELSE EngagementMean[SumGiven(GivenScores(userId),
                               Len(GivenScores(userId))),
                      Len(GivenScores(userId))]

\* C30: every row holds the engagement score its logEngagement call was
\* given, 0 included, and null only when none was given; and
\* getAverageEngagementScore returns the mean of the scores given for the
\* user.
C30_ScorePersisted ==
  /\ Len(engagementLog) = Len(engagementGiven)
  /\ \A idx \in 1..Len(engagementLog) :
       engagementLog[idx].engagement_score
         = engagementGiven[idx].engagementScore
  /\ (/\ engagementCall # <<>>
      /\ engagementCall[1].fn = "getAverageEngagementScore"
      /\ ~engagementCall[1].outcome.threw)
       => engagementCall[1].outcome.value = MeanGiven(engagementCall[1].userId)

============================================================================
